---------------------------- MODULE Spec2Model ----------------------------
(***************************************************************************)
(* Model of the signal pipeline of the trading platform: the analyzer      *)
(* (src/src/analyzer: signals.py, levels.py, mtf.py, indicators.py,        *)
(* engine.py), the screener (src/src/screener/screener.py) and the         *)
(* collector (src/src/collector: ohlcv.py, storage.py, websocket.py).      *)
(*                                                                         *)
(* Number representation.  The program computes on binary floats; the      *)
(* model computes on exact fixed-point integers:                           *)
(*   - a confidence is an integer number of thousandths (0.55 is 550), so  *)
(*     that round(x, 2) is a real rounding to a multiple of 10;            *)
(*   - a price (close, entry, ATR, level, stop, target) is an integer      *)
(*     number of sub-units, Sub sub-units making 0.00000001, the           *)
(*     resolution round(x, 8) keeps; ATR values are multiples of Sub/4 and *)
(*     closes and levels multiples of Sub, which makes every product of    *)
(*     compute_sl_tp exact;                                                *)
(*   - an undefined indicator (None or NaN) is the value NaN.              *)
(* Python's round() is round-half-to-even on the exact value.              *)
(***************************************************************************)
EXTENDS Integers, Sequences, FiniteSets, TLC

VARIABLES
    pc,               \* "call" before the function under study runs, "return" after
    op,               \* name of the function that ran ("" before)
    df,               \* the enriched series: a sequence of rows, oldest first
    higher_tf_trend,  \* higher-timeframe trend handed to the evaluators
    levels,           \* level set {support, resistance} handed to generate_signals
    direction,        \* compute_sl_tp: "long" or "short"
    entry,            \* compute_sl_tp / compute_position_size: entry price
    atr,              \* compute_sl_tp: ATR
    nearest_sr,       \* compute_sl_tp: optional level (None when absent)
    sl,               \* compute_position_size: stop price
    risk_pct,         \* compute_position_size: risk per trade, in 1/10000
    price,            \* nearest_support / nearest_resistance: reference price
    values,           \* _cluster_levels: the swing prices, in input order
    tolerance_pct,    \* _cluster_levels: tolerance, in tenths of a percent
    window,           \* swing detection: bars on each side of a swing point
    max_levels,       \* find_support_resistance: cap on the levels per side
    htf_df,           \* compute_htf_trend: the higher-timeframe series
    ohlcv,            \* database: candles of the symbol, by timeframe (for
                      \* the screener: of every symbol, by symbol and timeframe)
    signals,          \* database: the saved signals, oldest first
    now,              \* wall clock, in hours
    calls,            \* invocations of analyze_symbol: phase and what was read
    screen,           \* run_screener: position, candles by symbol, results
    backfill,         \* backfill_symbol: position, attempt, candles saved
    ws,               \* WebSocketManager: position, flags, reconnect delay
    ret,              \* value returned by the function
    exc               \* exception raised by the function ("" when none)

vars == <<pc, op, df, higher_tf_trend, levels, direction, entry, atr,
          nearest_sr, sl, risk_pct, price, values, tolerance_pct, window,
          max_levels, htf_df, ohlcv, signals, now, calls, screen, backfill,
          ws, ret, exc>>

-----------------------------------------------------------------------------
(* Values *)

\* None / NaN of an indicator column
NaN == -999999

\* the None of an absent optional number (nearest_sr)
None == -999998

\* the None of an absent optional object (prev_row, levels)
NoneObj == [is_none |-> TRUE]

IsDefined(x) == x # NaN

\* sub-units per 0.00000001
Sub == 8 * 4

\* a threshold that drops candidates at exactly 0.55 (> in place of >=)
MIN_CONFIDENCE_Above == 550 + 10

\* minimum confidence to emit a signal, in thousandths (0.55)
MIN_CONFIDENCE == 550

\* Python round(): n/d rounded to the nearest integer, ties to even (d > 0)
RoundHalfEven(n, d) ==
    LET q == n \div d
        r == n % d
    IN  IF 2 * r < d THEN q
        ELSE IF 2 * r > d THEN q + 1
        ELSE IF q % 2 = 0 THEN q ELSE q + 1

\* round(confidence, 2) on thousandths
Round2(x) == 10 * RoundHalfEven(x, 10)

Min(a, b) == IF a < b THEN a ELSE b
Max(a, b) == IF a > b THEN a ELSE b
Abs(a) == IF a < 0 THEN -a ELSE a

\* accumulator of an evaluation: running confidence and reasons so far
Add(acc, delta, reason) ==
    [confidence |-> acc.confidence + delta,
     reasons |-> Append(acc.reasons, reason)]

Rejected == [confidence |-> 0, reasons |-> <<>>]

-----------------------------------------------------------------------------
(* evaluate_long *)

\* RSI in pullback zone (30-50), overbought above 70
LongRsi(acc, row) ==
    LET rsi == row.rsi_14
    IN  IF IsDefined(rsi)
        THEN IF 30 <= rsi /\ rsi <= 50 THEN Add(acc, 100, "rsi_pullback")
             ELSE IF rsi > 70 THEN Add(acc, -100, "rsi_overbought")
             ELSE acc
        ELSE acc

\* MACD histogram positive or crossing up
LongMacd(acc, row, prev_row) ==
    LET macd_hist == row.macd_hist
    IN  IF IsDefined(macd_hist)
        THEN IF macd_hist > 0 THEN Add(acc, 100, "macd_bullish")
             ELSE IF prev_row # NoneObj
                  THEN IF IsDefined(prev_row.macd_hist) /\ prev_row.macd_hist < 0
                       THEN Add(acc, 100, "macd_cross_up")
                       ELSE acc
                  ELSE acc
        ELSE acc

\* Volume confirmation (vol_ratio in tenths)
VolumeConfirmation(acc, row) ==
    LET vol_ratio == row.vol_ratio
    IN  IF IsDefined(vol_ratio) /\ vol_ratio > 10
        THEN Add(acc, 100, "volume_above_avg")
        ELSE acc

\* Price below the Bollinger middle band
LongBb(acc, row) ==
    LET bb_middle == row.bb_middle
    IN  IF IsDefined(bb_middle) /\ row.close < bb_middle
        THEN Add(acc, 50, "price_below_bb_middle")
        ELSE acc

\* LongStoch with an undefined K or D coerced to zero
LongStoch_NaNAsZero(acc, row) ==
    LET stochrsi_k == IF IsDefined(row.stochrsi_k) THEN row.stochrsi_k ELSE 0
        stochrsi_d == IF IsDefined(row.stochrsi_d) THEN row.stochrsi_d ELSE 0
    IN  IF stochrsi_k > stochrsi_d
        THEN Add(acc, 50, "stochrsi_bullish")
        ELSE acc

\* Stoch RSI K > D
LongStoch(acc, row) ==
    LET stochrsi_k == row.stochrsi_k
        stochrsi_d == row.stochrsi_d
    IN  IF IsDefined(stochrsi_k) /\ IsDefined(stochrsi_d) /\ stochrsi_k > stochrsi_d
        THEN Add(acc, 50, "stochrsi_bullish")
        ELSE acc

\* Higher timeframe alignment
LongHtf(acc, htf) ==
    IF htf = 1 THEN Add(acc, 100, "htf_trend_aligned")
    ELSE IF htf = -1 THEN Add(acc, -150, "htf_trend_conflict")
    ELSE acc

\* Finish without the upper clamp
Finish_NoCap(acc) ==
    [confidence |-> Round2(Max(acc.confidence, 0)),
     reasons |-> acc.reasons]

\* round(max(min(confidence, 0.90), 0.0), 2), reasons
Finish(acc) ==
    [confidence |-> Round2(Max(Min(acc.confidence, 900), 0)),
     reasons |-> acc.reasons]

\* LongRequired without the EMA200 gate
LongRequired_TrendOnly(row) ==
    row.ema_trend = 1

\* required conditions of a long: EMA trend bullish, close not below EMA200
LongRequired(row) ==
    /\ row.ema_trend = 1
    /\ ~(IsDefined(row.ema_200) /\ row.close < row.ema_200)

evaluate_long(row, prev_row, htf) ==
    IF ~LongRequired(row) THEN Rejected
    ELSE LET a0 == [confidence |-> 500, reasons |-> <<"ema_21 > ema_50">>]
             a1 == LongRsi(a0, row)
             a2 == LongMacd(a1, row, prev_row)
             a3 == VolumeConfirmation(a2, row)
             a4 == LongBb(a3, row)
             a5 == LongStoch(a4, row)
             a6 == LongHtf(a5, htf)
         IN  Finish(a6)

-----------------------------------------------------------------------------
(* evaluate_short *)

ShortRsi(acc, row) ==
    LET rsi == row.rsi_14
    IN  IF IsDefined(rsi)
        THEN IF 50 <= rsi /\ rsi <= 70 THEN Add(acc, 100, "rsi_bounce")
             ELSE IF rsi < 30 THEN Add(acc, -100, "rsi_oversold")
             ELSE acc
        ELSE acc

ShortMacd(acc, row, prev_row) ==
    LET macd_hist == row.macd_hist
    IN  IF IsDefined(macd_hist)
        THEN IF macd_hist < 0 THEN Add(acc, 100, "macd_bearish")
             ELSE IF prev_row # NoneObj
                  THEN IF IsDefined(prev_row.macd_hist) /\ prev_row.macd_hist > 0
                       THEN Add(acc, 100, "macd_cross_down")
                       ELSE acc
                  ELSE acc
        ELSE acc

ShortBb(acc, row) ==
    LET bb_middle == row.bb_middle
    IN  IF IsDefined(bb_middle) /\ row.close > bb_middle
        THEN Add(acc, 50, "price_above_bb_middle")
        ELSE acc

\* ShortStoch with the comparison of the long side (K > D)
ShortStoch_Unmirrored(acc, row) ==
    LET stochrsi_k == row.stochrsi_k
        stochrsi_d == row.stochrsi_d
    IN  IF IsDefined(stochrsi_k) /\ IsDefined(stochrsi_d) /\ stochrsi_k > stochrsi_d
        THEN Add(acc, 50, "stochrsi_bearish")
        ELSE acc

\* Stoch RSI K < D
ShortStoch(acc, row) ==
    LET stochrsi_k == row.stochrsi_k
        stochrsi_d == row.stochrsi_d
    IN  IF IsDefined(stochrsi_k) /\ IsDefined(stochrsi_d) /\ stochrsi_k < stochrsi_d
        THEN Add(acc, 50, "stochrsi_bearish")
        ELSE acc

ShortHtf(acc, htf) ==
    IF htf = -1 THEN Add(acc, 100, "htf_trend_aligned")
    ELSE IF htf = 1 THEN Add(acc, -150, "htf_trend_conflict")
    ELSE acc

ShortRequired(row) ==
    /\ row.ema_trend = -1
    /\ ~(IsDefined(row.ema_200) /\ row.close > row.ema_200)

evaluate_short(row, prev_row, htf) ==
    IF ~ShortRequired(row) THEN Rejected
    ELSE LET a0 == [confidence |-> 500, reasons |-> <<"ema_21 < ema_50">>]
             a1 == ShortRsi(a0, row)
             a2 == ShortMacd(a1, row, prev_row)
             a3 == VolumeConfirmation(a2, row)
             a4 == ShortBb(a3, row)
             a5 == ShortStoch(a4, row)
             a6 == ShortHtf(a5, htf)
         IN  Finish(a6)

-----------------------------------------------------------------------------
(* levels.py: nearest level on one side of a price *)

SetMax(S) == CHOOSE x \in S : \A y \in S : y <= x
SetMin(S) == CHOOSE x \in S : \A y \in S : x <= y

\* a level at the price counts as below it (<= in place of <)
nearest_support_OrEqual(lvls, px) ==
    LET below == {lvls[i].price : i \in {j \in DOMAIN lvls : lvls[j].price <= px}}
    IN  IF below # {} THEN SetMax(below) ELSE None

\* highest level price strictly below the price, or None
nearest_support(lvls, px) ==
    LET below == {lvls[i].price : i \in {j \in DOMAIN lvls : lvls[j].price < px}}
    IN  IF below # {} THEN SetMax(below) ELSE None

\* lowest level price strictly above the price, or None
nearest_resistance(lvls, px) ==
    LET above == {lvls[i].price : i \in {j \in DOMAIN lvls : lvls[j].price > px}}
    IN  IF above # {} THEN SetMin(above) ELSE None

-----------------------------------------------------------------------------
(* levels.py: _cluster_levels *)

RECURSIVE SumTo(_, _)
SumTo(s, n) == IF n = 0 THEN 0 ELSE s[n] + SumTo(s, n - 1)

Total(s) == SumTo(s, Len(s))

\* the place of s[j] in ascending order; equal values keep their order
AscendingRank(s, j) ==
    Cardinality({i \in DOMAIN s : s[i] < s[j] \/ (s[i] = s[j] /\ i <= j)})

\* sorted(values)
sorted(s) ==
    [k \in 1..Len(s) |-> s[CHOOSE j \in DOMAIN s : AscendingRank(s, j) = k]]

\* the first value of the cluster taken as its centre (no running mean)
ClusterCenter_First(current) == [num |-> current[1], den |-> 1]

\* np.mean(current), as the fraction num / den
ClusterCenter(current) == [num |-> Total(current), den |-> Len(current)]

\* abs(v - center) / center <= tolerance_pct / 100, the tolerance in tenths
\* of a percent; a zero centre divides to inf or nan, which compares false
WithinTolerance(v, current, tol) ==
    LET center == ClusterCenter(current)
    IN  /\ center.num > 0
        /\ Abs(v * center.den - center.num) * 1000 <= tol * center.num

\* the loop over sorted_vals[1:]
RECURSIVE ScanValues(_, _, _, _, _)
ScanValues(sorted_vals, i, clusters, current, tol) ==
    IF i > Len(sorted_vals) THEN Append(clusters, current)
    ELSE LET v == sorted_vals[i]
         IN  IF WithinTolerance(v, current, tol)
             THEN ScanValues(sorted_vals, i + 1, clusters, Append(current, v), tol)
             ELSE ScanValues(sorted_vals, i + 1, Append(clusters, current), <<v>>, tol)

\* {"price": round(mean(c), 8), "touches": len(c)}
ClusterLevel(c) ==
    [price |-> Sub * RoundHalfEven(Total(c), Len(c) * Sub), touches |-> Len(c)]

\* the place of s[j] by touches, most first; equal counts keep their order
TouchesRank(s, j) ==
    Cardinality({i \in DOMAIN s :
        s[i].touches > s[j].touches \/ (s[i].touches = s[j].touches /\ i <= j)})

\* result.sort(key=touches, reverse=True): stable, most touches first
SortByTouches(s) ==
    [k \in 1..Len(s) |-> s[CHOOSE j \in DOMAIN s : TouchesRank(s, j) = k]]

cluster_levels(vals, tol) ==
    IF vals = <<>> THEN <<>>
    ELSE LET sorted_vals == sorted(vals)
             clusters == ScanValues(sorted_vals, 2, <<>>, <<sorted_vals[1]>>, tol)
             result == [i \in 1..Len(clusters) |-> ClusterLevel(clusters[i])]
         IN  SortByTouches(result)

-----------------------------------------------------------------------------
(* levels.py: find_swing_highs, find_swing_lows, find_support_resistance *)

\* df[name]: one column of a series
Column(frame, name) == [i \in DOMAIN frame |-> frame[i][name]]

\* a window that ends at bar i (center=True forgotten)
RollingWindow_Trailing(i, w) == (i - 2 * w)..i

\* rolling(window=2*window+1, center=True): the bars the window at bar i spans
RollingWindow(i, w) == (i - w)..(i + w)

\* rolling(...).max() at bar i: NaN where the window leaves the series
RollingMax(col, w, i) ==
    LET win == RollingWindow(i, w)
    IN  IF win \subseteq DOMAIN col THEN SetMax({col[j] : j \in win}) ELSE NaN

\* rolling(...).min() at bar i
RollingMin(col, w, i) ==
    LET win == RollingWindow(i, w)
    IN  IF win \subseteq DOMAIN col THEN SetMin({col[j] : j \in win}) ELSE NaN

\* col[mask]: the selected bars in series order, index counted from 0
Masked(col, mask) ==
    SelectSeq([i \in DOMAIN col |-> [index |-> i - 1, value |-> col[i]]],
              LAMBDA r : mask[r.index + 1])

find_swing_highs(frame, w) ==
    LET highs == Column(frame, "high")
        rolling_max == [i \in DOMAIN highs |-> RollingMax(highs, w, i)]
        mask == [i \in DOMAIN highs |-> highs[i] = rolling_max[i]]
    IN  Masked(highs, mask)

find_swing_lows(frame, w) ==
    LET lows == Column(frame, "low")
        rolling_min == [i \in DOMAIN lows |-> RollingMin(lows, w, i)]
        mask == [i \in DOMAIN lows |-> lows[i] = rolling_min[i]]
    IN  Masked(lows, mask)

\* series.dropna().tolist()
ToList(series) == [i \in DOMAIN series |-> series[i].value]

\* a cap that keeps the last k levels
Cap_Last(s, k) == SubSeq(s, Len(s) - Min(k, Len(s)) + 1, Len(s))

\* s[:k]
Cap(s, k) ==
    IF k >= 0 THEN SubSeq(s, 1, Min(k, Len(s)))
    ELSE SubSeq(s, 1, Max(Len(s) + k, 0))

find_support_resistance(frame, w, tol, k) ==
    LET swing_highs == ToList(find_swing_highs(frame, w))
        swing_lows == ToList(find_swing_lows(frame, w))
        resistance == Cap(cluster_levels(swing_highs, tol), k)
        support == Cap(cluster_levels(swing_lows, tol), k)
    IN  [support |-> support, resistance |-> resistance]

-----------------------------------------------------------------------------
(* compute_sl_tp, compute_position_size *)

\* ATR multiplier for stop-loss, in tenths (1.5)
SL_ATR_MULTIPLIER == 15

\* R:R ratios for take-profit levels, in tenths (1.5, 2.5, 4.0)
TP_RR_RATIOS == <<15, 25, 40>>

\* default risk per trade, in 1/10000 (0.02)
DEFAULT_RISK_PCT == 200

\* Decimal(str(round(x, 8))): a price in sub-units rounded to a whole number
\* of 0.00000001, still expressed in sub-units
Round8(x) == Sub * RoundHalfEven(x, Sub)

\* ChooseStop placing the stop on the level itself (buffer forgotten)
ChooseStop_NoBuffer(dir, e, a, sr) ==
    LET atr_risk == (SL_ATR_MULTIPLIER * a) \div 10
    IN  IF dir = "long"
        THEN LET atr_sl == e - atr_risk
             IN  IF sr # None /\ sr > atr_sl THEN sr ELSE atr_sl
        ELSE LET atr_sl == e + atr_risk
             IN  IF sr # None /\ sr < atr_sl THEN sr ELSE atr_sl

\* the stop before rounding: level-based when the level is closer than the
\* ATR-based stop, ATR-based otherwise
ChooseStop(dir, e, a, sr) ==
    LET atr_risk == (SL_ATR_MULTIPLIER * a) \div 10
        buffer == (a * 25) \div 100
    IN  IF dir = "long"
        THEN LET atr_sl == e - atr_risk
             IN  IF sr # None /\ sr > atr_sl THEN sr - buffer ELSE atr_sl
        ELSE LET atr_sl == e + atr_risk
             IN  IF sr # None /\ sr < atr_sl THEN sr + buffer ELSE atr_sl

\* risk = entry - sl for a long, sl - entry for a short (signed)
Risk(dir, e, stop) == IF dir = "long" THEN e - stop ELSE stop - e

\* i-th take-profit before rounding
TakeProfit(dir, e, risk, i) ==
    IF dir = "long"
    THEN e + (TP_RR_RATIOS[i] * risk) \div 10
    ELSE e - (TP_RR_RATIOS[i] * risk) \div 10

compute_sl_tp(dir, e, a, sr) ==
    LET stop == ChooseStop(dir, e, a, sr)
        risk == Risk(dir, e, stop)
    IN  [stop_loss     |-> Round8(stop),
         take_profit_1 |-> Round8(TakeProfit(dir, e, risk, 1)),
         take_profit_2 |-> Round8(TakeProfit(dir, e, risk, 2)),
         take_profit_3 |-> Round8(TakeProfit(dir, e, risk, 3)),
         risk_reward   |-> TP_RR_RATIOS[1]]

\* outcome of a call: a returned value or a raised exception
Returns(v) == [exc |-> "", value |-> v]
Raises(e) == [exc |-> e, value |-> NaN]

\* position size in tenths of a percent; risk is risk_pct in 1/10000.
\* risk_per_unit = abs(entry - sl) / entry divides by entry first.
compute_position_size(e, stop, risk) ==
    IF e = 0 THEN Raises("ZeroDivisionError")
    ELSE LET d == Abs(e - stop)
         IN  IF d = 0 \/ e < 0 THEN Returns(0)
             ELSE \* size_pct = risk/10000 / (d/e) * 100, in tenths: risk*e / (10*d)
                  LET num == risk * e
                      den == 10 * d
                  IN  IF num >= 200 * den
                      THEN Returns(RoundHalfEven(200, 1))
                      ELSE Returns(RoundHalfEven(num, den))

-----------------------------------------------------------------------------
(* generate_signals *)

\* columns of a row that are prices (sub-units); the others are unit-free
PriceKeys == {"ema_200", "bb_middle", "atr_14"}

\* the allow-list of _snapshot_indicators restricted to the modelled columns
SnapshotKeys == {"ema_200", "macd_hist", "rsi_14", "stochrsi_k", "stochrsi_d",
                 "bb_middle", "atr_14", "ema_trend", "vol_ratio"}

\* defined columns of the row, each rounded to 8 decimals
snapshot_indicators(row) ==
    [k \in {x \in SnapshotKeys : IsDefined(row[x])} |->
        IF k \in PriceKeys THEN Round8(row[k]) ELSE row[k]]

SignalCandidate(symbol, dir, timeframe, conf, e, sltp, size, row) ==
    [symbol |-> symbol,
     direction |-> dir,
     timeframe |-> timeframe,
     confidence |-> conf.confidence,
     entry_price |-> Round8(e),
     stop_loss |-> sltp.stop_loss,
     take_profit_1 |-> sltp.take_profit_1,
     take_profit_2 |-> sltp.take_profit_2,
     take_profit_3 |-> sltp.take_profit_3,
     risk_reward |-> sltp.risk_reward,
     position_size_pct |-> size,
     indicators |-> snapshot_indicators(row),
     reasons |-> conf.reasons]

\* outcome of generate_signals: the returned list (or the exception that
\* left it) and the evaluators it ran, in order
Outcome(e, v, evaluated) == [exc |-> e, value |-> v, evaluated |-> evaluated]

\* one direction of generate_signals: stop/targets, size, candidate
Emit(symbol, dir, timeframe, conf, e, a, sr, row, evaluated) ==
    LET sltp == compute_sl_tp(dir, e, a, sr)
        size == compute_position_size(e, sltp.stop_loss, DEFAULT_RISK_PCT)
    IN  IF size.exc # "" THEN Outcome(size.exc, <<>>, evaluated)
        ELSE Outcome("", <<SignalCandidate(symbol, dir, timeframe, conf, e,
                                           sltp, size.value, row)>>, evaluated)

generate_signals(frame, symbol, timeframe, htf, lvls) ==
    IF Len(frame) < 2 THEN Outcome("", <<>>, <<>>)
    ELSE LET row == frame[Len(frame)]
             prev_row == frame[Len(frame) - 1]
             a == row.atr_14
         IN  IF ~IsDefined(a) \/ a <= 0 THEN Outcome("", <<>>, <<>>)
             ELSE LET e == row.close
                      support_levels == IF lvls # NoneObj THEN lvls.support ELSE <<>>
                      resistance_levels == IF lvls # NoneObj THEN lvls.resistance ELSE <<>>
                      long == evaluate_long(row, prev_row, htf)
                      short == evaluate_short(row, prev_row, htf)
                  IN  IF long.confidence >= MIN_CONFIDENCE
                      THEN Emit(symbol, "long", timeframe, long, e, a,
                                nearest_support(support_levels, e), row,
                                <<"long">>)
                      ELSE IF short.confidence >= MIN_CONFIDENCE
                      THEN Emit(symbol, "short", timeframe, short, e, a,
                                nearest_resistance(resistance_levels, e), row,
                                <<"long", "short">>)
                      ELSE Outcome("", <<>>, <<"long", "short">>)

-----------------------------------------------------------------------------
(* Inputs of the evaluators *)

Trends == {-1, 0, 1}

\* close of the evaluated bar in the evaluator runs: 2 units of 0.00000001
EvalClose == 2 * Sub

MkRow(c, t, e200, rsi, macd, vol, bb, k, d, a) ==
    [close |-> c, ema_trend |-> t, ema_200 |-> e200, rsi_14 |-> rsi,
     macd_hist |-> macd, vol_ratio |-> vol, bb_middle |-> bb,
     stochrsi_k |-> k, stochrsi_d |-> d, atr_14 |-> a]

\* a bar before the last two: every indicator still in warm-up
WarmupRow(close) ==
    MkRow(close, 0, NaN, NaN, NaN, NaN, NaN, NaN, NaN, NaN)

\* indicator values on both sides of every threshold the evaluators test
RsiValues == {NaN, 29, 30, 50, 51, 70, 71}
MacdValues == {NaN, -1, 0, 1}
VolRatioValues == {NaN, 10, 11}
StochPairs == {<<NaN, NaN>>, <<NaN, 1>>, <<1, NaN>>, <<0, 1>>, <<1, 0>>, <<1, 1>>}
Around(close) == {NaN, close - Sub, close, close + Sub}

EvalRows ==
    {MkRow(EvalClose, t, e200, rsi, macd, vol, bb, st[1], st[2], NaN) :
        t \in Trends \cup {NaN}, e200 \in Around(EvalClose), rsi \in RsiValues,
        macd \in MacdValues, vol \in VolRatioValues,
        bb \in Around(EvalClose), st \in StochPairs}

\* the previous bar matters through its MACD histogram only
PrevRows ==
    {MkRow(EvalClose, 0, NaN, NaN, macd, NaN, NaN, NaN, NaN, NaN) :
        macd \in MacdValues}

\* last bar and previous bar (None when the series has one bar) of a series
LastRow(frame) == frame[Len(frame)]
PrevRow(frame) == IF Len(frame) >= 2 THEN frame[Len(frame) - 1] ELSE NoneObj

\* the variables a run of the evaluators does not use
SlTpIdle ==
    /\ direction = "" /\ entry = NaN /\ atr = NaN /\ nearest_sr = None
SizeIdle ==
    /\ sl = NaN /\ risk_pct = NaN

\* the screener and the collector before they are started
ServicesIdle ==
    /\ screen = NoneObj /\ backfill = NoneObj /\ ws = NoneObj

\* the variables a run outside levels.py does not use
LevelsIdle ==
    /\ price = NaN /\ values = <<>> /\ tolerance_pct = NaN
    /\ window = NaN /\ max_levels = NaN

\* the variables a run outside mtf.py and engine.py does not use
HtfIdle ==
    /\ htf_df = <<>>
    /\ ohlcv = <<>> /\ signals = <<>> /\ now = 0 /\ calls = <<>>
    /\ ServicesIdle

InitEval ==
    /\ pc = "call" /\ op = "" /\ ret = NoneObj /\ exc = ""
    /\ \E row \in EvalRows :
          \/ df = <<row>>
          \/ \E prev \in PrevRows : df = <<prev, row>>
    /\ higher_tf_trend \in Trends
    /\ levels = NoneObj
    /\ SlTpIdle /\ SizeIdle /\ LevelsIdle /\ HtfIdle

args == <<df, higher_tf_trend, levels, direction, entry, atr, nearest_sr,
          sl, risk_pct, price, values, tolerance_pct, window, max_levels,
          htf_df>>

\* the screener run, the backfill run and the stream manager
services == <<screen, backfill, ws>>

\* database, clock and invocations of analyze_symbol
engine == <<ohlcv, signals, now, calls>>

\* everything the run of a pure function leaves alone
inputs == <<args, engine, services>>

EvaluateLong ==
    /\ pc = "call" /\ Len(df) >= 1
    /\ ret' = evaluate_long(LastRow(df), PrevRow(df), higher_tf_trend)
    /\ op' = "evaluate_long" /\ pc' = "return"
    /\ UNCHANGED <<inputs, exc>>

EvaluateShort ==
    /\ pc = "call" /\ Len(df) >= 1
    /\ ret' = evaluate_short(LastRow(df), PrevRow(df), higher_tf_trend)
    /\ op' = "evaluate_short" /\ pc' = "return"
    /\ UNCHANGED <<inputs, exc>>

NextEval == EvaluateLong \/ EvaluateShort

SpecEval == InitEval /\ [][NextEval]_vars

-----------------------------------------------------------------------------
(* Inputs of generate_signals *)

\* longest series handed to generate_signals
MaxBars == 2

\* ATR values run over 1..MaxAtrQuarters quarters of 0.00000001
MaxAtrQuarters == 6

\* level prices lie within MaxLevelDist units of the close
MaxLevelDist == 1

\* close of the last bar in the generate_signals runs, in units of 0.00000001
GenCloseUnits == 4
GenClose == GenCloseUnits * Sub

\* undefined, zero, and positive values from a quarter of 0.00000001 up: the
\* ATR is a smoothed average, so on a quiet series it is positive and below
\* the resolution round(x, 8) keeps
AtrValues == {NaN, 0} \cup {k * (Sub \div 4) : k \in 1..MaxAtrQuarters}

GenRows ==
    {MkRow(GenClose, t, NaN, rsi, macd, NaN, bb, NaN, NaN, a) :
        t \in Trends, rsi \in {NaN, 40, 60}, macd \in {-1, 1},
        bb \in {NaN, GenClose - Sub, GenClose + Sub}, a \in AtrValues}

Level(px) == [price |-> px, touches |-> 1]

LevelPrices ==
    {GenClose + d * Sub : d \in (0 - MaxLevelDist)..MaxLevelDist}

\* level lists of at most two levels, in any order
LevelLists ==
    {<<>>} \cup {<<Level(p)>> : p \in LevelPrices}
           \cup {<<Level(p), Level(q)>> : p \in LevelPrices, q \in LevelPrices}

LevelSets ==
    {NoneObj} \cup [support : LevelLists, resistance : LevelLists]

\* series of n bars ending with the given previous and last bar
Series(n, row) ==
    IF n = 0 THEN <<>>
    ELSE [i \in 1..n |-> IF i = n THEN row ELSE WarmupRow(GenClose)]

InitGen ==
    /\ pc = "call" /\ op = "" /\ ret = NoneObj /\ exc = ""
    /\ \E n \in 0..MaxBars, row \in GenRows : df = Series(n, row)
    /\ higher_tf_trend \in Trends
    /\ levels \in LevelSets
    /\ SlTpIdle /\ SizeIdle /\ LevelsIdle /\ HtfIdle

GenerateSignals ==
    /\ pc = "call"
    /\ LET out == generate_signals(df, "BTCUSDT", "1h", higher_tf_trend, levels)
       IN  /\ ret' = [value |-> out.value, evaluated |-> out.evaluated]
           /\ exc' = out.exc
    /\ op' = "generate_signals" /\ pc' = "return"
    /\ UNCHANGED inputs

NextGen == GenerateSignals

SpecGen == InitGen /\ [][NextGen]_vars

-----------------------------------------------------------------------------
(* Inputs of compute_sl_tp and compute_position_size *)

\* entry prices of the compute_sl_tp runs, in units of 0.00000001
SlTpEntryUnits == {1, 20}

\* levels handed to compute_sl_tp run over 0..MaxSrUnits units
MaxSrUnits == 30

\* ATR of the compute_sl_tp runs: 1..MaxSlTpAtrQuarters quarter units
MaxSlTpAtrQuarters == 40

InitSlTp ==
    /\ pc = "call" /\ op = "" /\ ret = NoneObj /\ exc = ""
    /\ df = <<>> /\ higher_tf_trend = 0 /\ levels = NoneObj
    /\ direction \in {"long", "short"}
    /\ entry \in {u * Sub : u \in SlTpEntryUnits}
    /\ atr \in {k * (Sub \div 4) : k \in 1..MaxSlTpAtrQuarters}
    /\ nearest_sr \in {None} \cup {u * Sub : u \in 0..MaxSrUnits}
    /\ SizeIdle /\ LevelsIdle /\ HtfIdle

ComputeSlTp ==
    /\ pc = "call" /\ direction # ""
    /\ ret' = compute_sl_tp(direction, entry, atr, nearest_sr)
    /\ op' = "compute_sl_tp" /\ pc' = "return"
    /\ UNCHANGED <<inputs, exc>>

NextSlTp == ComputeSlTp

SpecSlTp == InitSlTp /\ [][NextSlTp]_vars

\* entry and stop of the compute_position_size runs lie in -MaxPrice..MaxPrice
MaxPrice == 12

\* risk_pct values, in 1/10000: negative, zero, 0.5%, the default 2%, 5%, 50%
RiskPcts == {-200, 0, 50, DEFAULT_RISK_PCT, 500, 5000}

InitSize ==
    /\ pc = "call" /\ op = "" /\ ret = NoneObj /\ exc = ""
    /\ df = <<>> /\ higher_tf_trend = 0 /\ levels = NoneObj
    /\ direction = "" /\ atr = NaN /\ nearest_sr = None
    /\ entry \in (0 - MaxPrice)..MaxPrice
    /\ sl \in (0 - MaxPrice)..MaxPrice
    /\ risk_pct \in RiskPcts
    /\ LevelsIdle /\ HtfIdle

ComputePositionSize ==
    /\ pc = "call" /\ risk_pct # NaN
    /\ LET out == compute_position_size(entry, sl, risk_pct)
       IN  ret' = out.value /\ exc' = out.exc
    /\ op' = "compute_position_size" /\ pc' = "return"
    /\ UNCHANGED inputs

NextSize == ComputePositionSize

SpecSize == InitSize /\ [][NextSize]_vars

-----------------------------------------------------------------------------
(* Properties of evaluate_long and evaluate_short (SpecEval) *)

Returned(name) == pc = "return" /\ op = name

\* the evaluated bar, its predecessor
Bar == LastRow(df)
PrevBar == PrevRow(df)

\* C1: evaluate_long returns (0.0, []) whenever ema_trend is not +1, or EMA200
\* is defined and close < EMA200, whatever the other inputs are; evaluate_short
\* returns (0.0, []) whenever ema_trend is not -1, or EMA200 is defined and
\* close > EMA200; with EMA200 undefined the EMA200 condition is not applied
\* (the trend alone lets the evaluation through: the base reason is returned).
C1_RequiredConditions ==
    /\ Returned("evaluate_long") =>
          /\ (Bar.ema_trend # 1 \/ (Bar.ema_200 # NaN /\ Bar.close < Bar.ema_200))
                => (ret.confidence = 0 /\ ret.reasons = <<>>)
          /\ (Bar.ema_trend = 1 /\ Bar.ema_200 = NaN)
                => (ret.confidence > 0 /\ ret.reasons # <<>>)
    /\ Returned("evaluate_short") =>
          /\ (Bar.ema_trend # -1 \/ (Bar.ema_200 # NaN /\ Bar.close > Bar.ema_200))
                => (ret.confidence = 0 /\ ret.reasons = <<>>)
          /\ (Bar.ema_trend = -1 /\ Bar.ema_200 = NaN)
                => (ret.confidence > 0 /\ ret.reasons # <<>>)

\* a bullish bar below its EMA200 on which every bonus would apply is rejected
C1_Witness ==
    /\ Returned("evaluate_long")
    /\ Bar.ema_trend = 1 /\ Bar.ema_200 # NaN /\ Bar.close < Bar.ema_200
    /\ Bar.rsi_14 = 30 /\ Bar.macd_hist = 1 /\ Bar.vol_ratio = 11
    /\ Bar.bb_middle # NaN /\ Bar.close < Bar.bb_middle
    /\ Bar.stochrsi_k = 1 /\ Bar.stochrsi_d = 0
    /\ higher_tf_trend = 1
    /\ ret.confidence = 0 /\ ret.reasons = <<>>

\* the rows of the long adjustment table, as (condition, delta) pairs
LongTable(row, prev_row, htf) ==
    << <<row.rsi_14 # NaN /\ 30 <= row.rsi_14 /\ row.rsi_14 <= 50, 100>>,
       <<row.rsi_14 # NaN /\ row.rsi_14 > 70, -100>>,
       <<row.macd_hist # NaN /\ row.macd_hist > 0, 100>>,
       <<row.macd_hist # NaN /\ ~(row.macd_hist > 0) /\ prev_row # NoneObj
            /\ prev_row.macd_hist # NaN /\ prev_row.macd_hist < 0, 100>>,
       <<row.vol_ratio # NaN /\ row.vol_ratio > 10, 100>>,
       <<row.bb_middle # NaN /\ row.close < row.bb_middle, 50>>,
       <<row.stochrsi_k # NaN /\ row.stochrsi_d # NaN
            /\ row.stochrsi_k > row.stochrsi_d, 50>>,
       <<htf = 1, 100>>,
       <<htf = -1, -150>> >>

RECURSIVE TableSum(_, _)
TableSum(table, i) ==
    IF i = 0 THEN 0
    ELSE TableSum(table, i - 1) + (IF table[i][1] THEN table[i][2] ELSE 0)

TableCount(table) == Cardinality({i \in DOMAIN table : table[i][1]})

Clamp(x, lo, hi) == IF x < lo THEN lo ELSE IF x > hi THEN hi ELSE x

\* C2: when the long precondition holds, the confidence of evaluate_long is
\* clamp(0.50 + sum of the deltas of the table rows whose condition holds,
\* 0, 0.90), a multiple of 0.01; an undefined indicator contributes nothing
\* and adds no reason: the reasons are the base reason plus one per row taken.
C2_LongConfidence ==
    (Returned("evaluate_long") /\ Bar.ema_trend = 1
        /\ (Bar.ema_200 = NaN \/ Bar.close >= Bar.ema_200)) =>
       LET table == LongTable(Bar, PrevBar, higher_tf_trend)
       IN  /\ ret.confidence = Clamp(500 + TableSum(table, Len(table)), 0, 900)
           /\ ret.confidence % 10 = 0
           /\ Len(ret.reasons) = 1 + TableCount(table)

\* a qualifying bar with RSI, volume ratio, Bollinger and StochRSI D undefined,
\* a histogram at zero after a negative one: 0.50 + 0.10 (cross-up)
C2_Witness ==
    /\ Returned("evaluate_long")
    /\ Bar.ema_trend = 1 /\ Bar.ema_200 = NaN
    /\ Bar.rsi_14 = NaN /\ Bar.vol_ratio = NaN /\ Bar.bb_middle = NaN
    /\ Bar.stochrsi_k = 1 /\ Bar.stochrsi_d = NaN
    /\ Bar.macd_hist = 0 /\ PrevBar # NoneObj /\ PrevBar.macd_hist = -1
    /\ higher_tf_trend = 0
    /\ ret.confidence = 600
    /\ ret.reasons = <<"ema_21 > ema_50", "macd_cross_up">>

\* every bonus of the long table applies (raw sum 1.00)
AllLongBonuses ==
    /\ Bar.ema_trend = 1 /\ (Bar.ema_200 = NaN \/ Bar.close >= Bar.ema_200)
    /\ Bar.rsi_14 # NaN /\ 30 <= Bar.rsi_14 /\ Bar.rsi_14 <= 50
    /\ Bar.macd_hist # NaN /\ Bar.macd_hist > 0
    /\ Bar.vol_ratio # NaN /\ Bar.vol_ratio > 10
    /\ Bar.bb_middle # NaN /\ Bar.close < Bar.bb_middle
    /\ Bar.stochrsi_k # NaN /\ Bar.stochrsi_d # NaN
    /\ Bar.stochrsi_k > Bar.stochrsi_d
    /\ higher_tf_trend = 1

\* every bonus of the short table applies
AllShortBonuses ==
    /\ Bar.ema_trend = -1 /\ (Bar.ema_200 = NaN \/ Bar.close <= Bar.ema_200)
    /\ Bar.rsi_14 # NaN /\ 50 <= Bar.rsi_14 /\ Bar.rsi_14 <= 70
    /\ Bar.macd_hist # NaN /\ Bar.macd_hist < 0
    /\ Bar.vol_ratio # NaN /\ Bar.vol_ratio > 10
    /\ Bar.bb_middle # NaN /\ Bar.close > Bar.bb_middle
    /\ Bar.stochrsi_k # NaN /\ Bar.stochrsi_d # NaN
    /\ Bar.stochrsi_k < Bar.stochrsi_d
    /\ higher_tf_trend = -1

\* C3: for every bar, previous bar and higher-timeframe trend the confidence
\* returned by evaluate_long and by evaluate_short lies in [0, 0.90]; a bar on
\* which every bonus applies yields exactly 0.90.
C3_ConfidenceRange ==
    /\ (Returned("evaluate_long") \/ Returned("evaluate_short")) =>
          (0 <= ret.confidence /\ ret.confidence <= 900)
    /\ (Returned("evaluate_long") /\ AllLongBonuses) => ret.confidence = 900
    /\ (Returned("evaluate_short") /\ AllShortBonuses) => ret.confidence = 900

\* a long evaluation of a bar with every bonus, capped at 0.90 with 7 reasons
C3_Witness ==
    /\ Returned("evaluate_long") /\ AllLongBonuses
    /\ ret.confidence = 900 /\ Len(ret.reasons) = 7

-----------------------------------------------------------------------------
(* Properties of generate_signals (SpecGen) *)

\* the series gives generate_signals what it needs: two bars, ATR defined, > 0
DataOk == Len(df) >= 2 /\ Bar.atr_14 # NaN /\ Bar.atr_14 > 0

LongConf == evaluate_long(Bar, PrevBar, higher_tf_trend).confidence
ShortConf == evaluate_short(Bar, PrevBar, higher_tf_trend).confidence

Emitted(dir) == Len(ret.value) = 1 /\ ret.value[1].direction = dir

Ordered(dir, e, stop, tp1, tp2, tp3) ==
    IF dir = "long"
    THEN stop < e /\ e < tp1 /\ tp1 < tp2 /\ tp2 < tp3
    ELSE stop > e /\ e > tp1 /\ tp1 > tp2 /\ tp2 > tp3

\* C6: every candidate emitted by generate_signals satisfies the ordering
\* invariant: long implies stop_loss < entry_price < take_profit_1 <
\* take_profit_2 < take_profit_3, short the mirror.
C6_CandidateOrdering ==
    (Returned("generate_signals") /\ Len(ret.value) = 1) =>
       LET c == ret.value[1]
       IN  Ordered(c.direction, c.entry_price, c.stop_loss, c.take_profit_1,
                   c.take_profit_2, c.take_profit_3)

-----------------------------------------------------------------------------
(* Properties of compute_sl_tp (SpecSlTp) *)

\* C5: for compute_sl_tp with entry > 0, ATR > 0 and any optional nearest
\* level (none or any price), the stop-loss of a long is strictly below entry
\* and entry < tp1 < tp2 < tp3; for a short the stop-loss is strictly above
\* entry and entry > tp1 > tp2 > tp3.
C5_StopAndTargetsOrdered ==
    (Returned("compute_sl_tp") /\ entry > 0 /\ atr > 0) =>
       Ordered(direction, entry, ret.stop_loss, ret.take_profit_1,
               ret.take_profit_2, ret.take_profit_3)

\* four times the stop the rule of C7 selects (exact: ATR is a multiple of 8)
LevelIsCloser ==
    /\ nearest_sr # None
    /\ IF direction = "long"
       THEN 2 * nearest_sr > 2 * entry - 3 * atr
       ELSE 2 * nearest_sr < 2 * entry + 3 * atr

Stop4 ==
    IF direction = "long"
    THEN IF LevelIsCloser THEN 4 * nearest_sr - atr ELSE 4 * entry - 6 * atr
    ELSE IF LevelIsCloser THEN 4 * nearest_sr + atr ELSE 4 * entry + 6 * atr

\* C7: for a long, if a support level is given and lies above entry - 1.5*ATR
\* the stop is support - 0.25*ATR, otherwise entry - 1.5*ATR; for a short, if
\* a resistance level is given and lies below entry + 1.5*ATR the stop is
\* resistance + 0.25*ATR, otherwise entry + 1.5*ATR (the returned stop is
\* that value at 8 decimals).
C7_StopChoice ==
    Returned("compute_sl_tp") =>
       ret.stop_loss = Sub * RoundHalfEven(Stop4, 4 * Sub)

\* a long whose support is closer than the ATR stop: stop = support - ATR/4
C7_Witness ==
    /\ Returned("compute_sl_tp") /\ direction = "long"
    /\ nearest_sr # None /\ nearest_sr < entry
    /\ 2 * nearest_sr > 2 * entry - 3 * atr
    /\ atr % (4 * Sub) = 0
    /\ ret.stop_loss = nearest_sr - atr \div 4

\* C8: whenever compute_sl_tp uses a support level for a long, the stop is
\* tighter than the ATR-based stop and just below the level:
\* entry - 1.5*ATR < stop < support; for a short using a resistance level,
\* resistance < stop < entry + 1.5*ATR.
C8_LevelStopTighter ==
    (Returned("compute_sl_tp") /\ LevelIsCloser) =>
       IF direction = "long"
       THEN 2 * entry - 3 * atr < 2 * ret.stop_loss /\ ret.stop_loss < nearest_sr
       ELSE nearest_sr < ret.stop_loss /\ 2 * ret.stop_loss < 2 * entry + 3 * atr

\* C9: with risk = |entry - stop| taken from the stop actually chosen, the
\* take-profits are entry + 1.5*risk, entry + 2.5*risk, entry + 4.0*risk for a
\* long and entry minus the same amounts for a short (at 8 decimals), and the
\* reported risk_reward is 1.5 whichever stop was chosen.
C9_TakeProfits ==
    Returned("compute_sl_tp") =>
       LET risk4 == Abs(4 * entry - Stop4)
           Tp(ratio) == IF direction = "long"
                        THEN Sub * RoundHalfEven(40 * entry + ratio * risk4, 40 * Sub)
                        ELSE Sub * RoundHalfEven(40 * entry - ratio * risk4, 40 * Sub)
       IN  /\ ret.take_profit_1 = Tp(15)
           /\ ret.take_profit_2 = Tp(25)
           /\ ret.take_profit_3 = Tp(40)
           /\ ret.risk_reward = 15

-----------------------------------------------------------------------------
(* Properties of compute_position_size (SpecSize) *)

\* C10: compute_position_size returns 0 when stop equals entry and never
\* returns more than 20 for any risk_pct, entry and stop; when
\* |entry - stop|/entry > 0 it returns min(risk_pct / (|entry - stop|/entry)
\* * 100, 20) rounded to 1 decimal.
C10_PositionSize ==
    Returned("compute_position_size") =>
       /\ sl = entry => (exc = "" /\ ret = 0)
       /\ exc = "" => ret <= 200
       /\ (entry > 0 /\ sl # entry) =>
             LET d == Abs(entry - sl)
             IN  /\ exc = ""
                 /\ ret = IF risk_pct * entry >= 2000 * d
                          THEN 200
                          ELSE RoundHalfEven(risk_pct * entry, 10 * d)

-----------------------------------------------------------------------------
(* nearest_support, nearest_resistance: inputs and runs *)

\* a level list of the nearest-level runs holds up to MaxLevels levels
MaxLevels == 3

\* level prices lie in 0..MaxLevelUnits units of 0.00000001
MaxLevelUnits == 3

TouchCounts == {1, 1 + 1}

\* every list of n levels, in every order and with every touch count
LevelSeqs(n) ==
    [1..n -> [price : {u * Sub : u \in 0..MaxLevelUnits}, touches : TouchCounts]]

InitLevels ==
    /\ pc = "call" /\ op = "" /\ ret = NoneObj /\ exc = ""
    /\ df = <<>> /\ higher_tf_trend = 0
    /\ \E n \in 0..MaxLevels : levels \in LevelSeqs(n)
    /\ price \in {u * Sub : u \in 0..(MaxLevelUnits + 1)}
    /\ values = <<>> /\ tolerance_pct = NaN /\ window = NaN /\ max_levels = NaN
    /\ SlTpIdle /\ SizeIdle /\ HtfIdle

NearestSupport ==
    /\ pc = "call" /\ price # NaN
    /\ ret' = nearest_support(levels, price)
    /\ op' = "nearest_support" /\ pc' = "return"
    /\ UNCHANGED <<inputs, exc>>

NearestResistance ==
    /\ pc = "call" /\ price # NaN
    /\ ret' = nearest_resistance(levels, price)
    /\ op' = "nearest_resistance" /\ pc' = "return"
    /\ UNCHANGED <<inputs, exc>>

NextLevels == NearestSupport \/ NearestResistance

SpecLevels == InitLevels /\ [][NextLevels]_vars

\* the prices of the levels handed in
HandedPrices == {levels[i].price : i \in DOMAIN levels}

\* C11: for any list of levels, in any order and with any touch counts, and
\* any price, nearest_support returns the greatest level price strictly
\* below the price, or none when no level is strictly below it, and
\* nearest_resistance the least level price strictly above it, or none; a
\* level equal to the price is never returned.
C11_NearestLevel ==
    /\ Returned("nearest_support") =>
          LET below == {p \in HandedPrices : p < price}
          IN  IF below = {} THEN ret = None
              ELSE ret \in below /\ \A p \in below : p <= ret
    /\ Returned("nearest_resistance") =>
          LET above == {p \in HandedPrices : p > price}
          IN  IF above = {} THEN ret = None
              ELSE ret \in above /\ \A p \in above : ret <= p
    /\ (Returned("nearest_support") \/ Returned("nearest_resistance")) =>
          ret # price

\* an unsorted list holding a level at the price, a level below it found
C11_Witness ==
    /\ Returned("nearest_support") /\ ret # None
    /\ price \in HandedPrices
    /\ \E i, j \in DOMAIN levels :
          /\ i < j /\ levels[i].price > levels[j].price
          /\ levels[i].touches # levels[j].touches

-----------------------------------------------------------------------------
(* _cluster_levels: inputs and runs *)

\* a list of swing prices holds up to MaxValues values
MaxValues == 4

\* swing prices in units of 0.00000001: 0.5% of 200 is 1, 1% of 200 is 2
ClusterUnits == {200, 201, 202, 203, 206}

\* tolerances in tenths of a percent: 0, the default 0.5% and 1%
Tolerances == {0, 5, 10}

\* the series of the unit test, 100.0 100.3 100.5 105.0 105.2 110.0, out of
\* order and in units of 0.00000001 (the tolerance is relative)
ExampleValues ==
    <<1050 * Sub, 1000 * Sub, 1100 * Sub, 1005 * Sub, 1003 * Sub, 1052 * Sub>>

InitCluster ==
    /\ pc = "call" /\ op = "" /\ ret = NoneObj /\ exc = ""
    /\ df = <<>> /\ higher_tf_trend = 0 /\ levels = NoneObj
    /\ \/ /\ \E n \in 0..MaxValues : values \in [1..n -> {u * Sub : u \in ClusterUnits}]
          /\ tolerance_pct \in Tolerances
       \/ values = ExampleValues /\ tolerance_pct = 5
    /\ price = NaN /\ window = NaN /\ max_levels = NaN
    /\ SlTpIdle /\ SizeIdle /\ HtfIdle

ClusterLevels ==
    /\ pc = "call" /\ tolerance_pct # NaN /\ window = NaN
    /\ ret' = cluster_levels(values, tolerance_pct)
    /\ op' = "_cluster_levels" /\ pc' = "return"
    /\ UNCHANGED <<inputs, exc>>

NextCluster == ClusterLevels

SpecCluster == InitCluster /\ [][NextCluster]_vars

-----------------------------------------------------------------------------
(* Properties of _cluster_levels *)

\* the orderings of a sequence
Orderings(s) == {[i \in DOMAIN s |-> s[f[i]]] : f \in Permutations(DOMAIN s)}

\* the values of s in ascending order: the i-th is the value with fewer
\* than i values below it and at least i values not above it
AscendingOf(s) ==
    [i \in DOMAIN s |->
        CHOOSE v \in {s[j] : j \in DOMAIN s} :
            /\ Cardinality({j \in DOMAIN s : s[j] < v}) < i
            /\ Cardinality({j \in DOMAIN s : s[j] <= v}) >= i]

\* B is the set of positions that open a cluster: the cluster holding
\* position k starts at the last member of B up to k
StartOf(B, k) == SetMax({b \in B : b <= k})

\* v is within tol of the mean m = sum / n of the values s[a..b]
JoinsMean(s, a, b, v, tol) ==
    LET n == b - a + 1
        sum == Total(SubSeq(s, a, b))
    IN  Abs(v * n - sum) * 1000 <= tol * sum

\* one scan of s: position i opens a cluster iff its value is outside the
\* tolerance of the mean of the values already in the current cluster
IsScan(s, B, tol) ==
    /\ 1 \in B
    /\ \A i \in 2..Len(s) :
          i \in B <=> ~JoinsMean(s, StartOf(B, i - 1), i - 1, s[i], tol)

EndOf(s, B, b) ==
    IF \E c \in B : c > b THEN SetMin({c \in B : c > b}) - 1 ELSE Len(s)

\* the level of the cluster opened at b: mean at 8 decimals, size
LevelOf(s, B, b) ==
    LET n == EndOf(s, B, b) - b + 1
        sum == Total(SubSeq(s, b, EndOf(s, B, b)))
    IN  [price |-> Sub * RoundHalfEven(sum, n * Sub), touches |-> n]

\* out holds exactly the levels of the clusters of s opened at B
HoldsClusters(out, s, B) ==
    /\ Len(out) = Cardinality(B)
    /\ \A b \in B :
          Cardinality({i \in DOMAIN out : out[i] = LevelOf(s, B, b)})
             = Cardinality({c \in B : LevelOf(s, B, c) = LevelOf(s, B, b)})

\* C12: _cluster_levels sorts the values ascending and scans them once, a
\* value joining the current cluster iff it is within tolerance_pct percent
\* of the mean of the values already in it; the output has one level per
\* cluster with price = mean and touches = size, so the touches sum to the
\* number of values and the output does not depend on the input order; for
\* the series of the unit test at 0.5% the first level is the 3-touch
\* cluster {100.0, 100.3, 100.5}.
C12_Clusters ==
    Returned("_cluster_levels") =>
       /\ values = <<>> => ret = <<>>
       /\ values # <<>> =>
             LET s == AscendingOf(values)
             IN  \E B \in SUBSET (1..Len(values)) :
                    IsScan(s, B, tolerance_pct) /\ HoldsClusters(ret, s, B)
       /\ SumTo([i \in DOMAIN ret |-> ret[i].touches], Len(ret)) = Len(values)
       /\ \A q \in Orderings(values) : cluster_levels(q, tolerance_pct) = ret
       /\ (values = ExampleValues /\ tolerance_pct = 5) =>
             ret[1] = [price |-> 1003 * Sub, touches |-> 3]

\* unsorted input whose values all fall in one cluster although the last is
\* within the tolerance of the running mean only, not of the first value
C12_Witness ==
    /\ Returned("_cluster_levels")
    /\ values # AscendingOf(values)
    /\ Len(ret) = 1 /\ ret[1].touches = 3
    /\ \E i, j \in DOMAIN values :
          (values[i] - values[j]) * 1000 > tolerance_pct * values[j]

-----------------------------------------------------------------------------
(* Swing detection and find_support_resistance: inputs and runs *)

\* a series of the level runs holds up to MaxSeriesLen bars
MaxSeriesLen == 5

\* the swing window runs over 0..MaxWindow bars on each side
MaxWindow == 2

\* the cap on the levels per side runs over 0..MaxCap
MaxCap == 2

\* highs and lows of a bar, in units of 0.00000001: the highs lie more than
\* 1% apart, the lows 0.5% apart
HighUnits == {203, 206, 210}
LowUnits == {200, 201}

SwingBars == [high : {u * Sub : u \in HighUnits}, low : {u * Sub : u \in LowUnits}]

InitSwing ==
    /\ pc = "call" /\ op = "" /\ ret = NoneObj /\ exc = ""
    /\ \E n \in 0..MaxSeriesLen : df \in [1..n -> SwingBars]
    /\ window \in 0..MaxWindow
    /\ higher_tf_trend = 0 /\ levels = NoneObj
    /\ price = NaN /\ values = <<>> /\ tolerance_pct = NaN /\ max_levels = NaN
    /\ SlTpIdle /\ SizeIdle /\ HtfIdle

FindSwingHighs ==
    /\ pc = "call" /\ window # NaN
    /\ ret' = find_swing_highs(df, window)
    /\ op' = "find_swing_highs" /\ pc' = "return"
    /\ UNCHANGED <<inputs, exc>>

FindSwingLows ==
    /\ pc = "call" /\ window # NaN
    /\ ret' = find_swing_lows(df, window)
    /\ op' = "find_swing_lows" /\ pc' = "return"
    /\ UNCHANGED <<inputs, exc>>

NextSwing == FindSwingHighs \/ FindSwingLows

SpecSwing == InitSwing /\ [][NextSwing]_vars

InitSR ==
    /\ pc = "call" /\ op = "" /\ ret = NoneObj /\ exc = ""
    /\ \E n \in 0..MaxSeriesLen : df \in [1..n -> SwingBars]
    /\ window \in 0..MaxWindow
    /\ tolerance_pct \in {0, 5}
    /\ max_levels \in 0..MaxCap
    /\ higher_tf_trend = 0 /\ levels = NoneObj
    /\ price = NaN /\ values = <<>>
    /\ SlTpIdle /\ SizeIdle /\ HtfIdle

FindSupportResistance ==
    /\ pc = "call" /\ max_levels # NaN
    /\ ret' = find_support_resistance(df, window, tolerance_pct, max_levels)
    /\ op' = "find_support_resistance" /\ pc' = "return"
    /\ UNCHANGED <<inputs, exc>>

NextSR == FindSupportResistance

SpecSR == InitSR /\ [][NextSR]_vars

-----------------------------------------------------------------------------
(* Properties of find_support_resistance and of the swing detection *)

\* the clusters of one side before the cap
SideClusters(side) ==
    IF side = "support"
    THEN cluster_levels(ToList(find_swing_lows(df, window)), tolerance_pct)
    ELSE cluster_levels(ToList(find_swing_highs(df, window)), tolerance_pct)

\* the clusters the cap left out, as positions of the uncapped list
LeftOut(side) == {i \in DOMAIN SideClusters(side) : i > Len(ret[side])}

\* C13: find_support_resistance returns, for support and for resistance, a
\* list of at most max_levels levels ordered by touches non-increasing, each
\* with touches >= 1; every cluster left out by the cap has no more touches
\* than any level that is returned.
C13_CappedLevels ==
    Returned("find_support_resistance") =>
       \A side \in {"support", "resistance"} :
          LET out == ret[side]
              all == SideClusters(side)
          IN  /\ Len(out) <= max_levels
              /\ \A i \in DOMAIN out : out[i].touches >= 1
              /\ \A i, j \in DOMAIN out : i < j => out[i].touches >= out[j].touches
              /\ \A i \in DOMAIN out : out[i] = all[i]
              /\ Len(out) = Min(max_levels, Len(all))
              /\ \A i \in LeftOut(side), j \in DOMAIN out :
                    all[i].touches <= out[j].touches

\* the cap leaves out a cluster and keeps levels of different touch counts
C13_Witness ==
    /\ Returned("find_support_resistance")
    /\ LeftOut("resistance") # {}
    /\ Len(ret.resistance) = 2
    /\ ret.resistance[1].touches > ret.resistance[2].touches
    /\ Len(ret.support) >= 1

\* bar i (counted from 0) is reported
Reported(i) == \E k \in DOMAIN ret : ret[k].index = i

\* C14: for a series of n bars and window w, bar i is reported by
\* find_swing_highs iff w <= i <= n-1-w and high[i] equals the maximum high
\* over bars i-w..i+w (find_swing_lows: low[i] equals the minimum low over
\* the same window); bars within w of either end are never swing points,
\* and a series of fewer than 2w+1 bars has none.
C14_SwingPoints ==
    LET n == Len(df)
        w == window
        high(i) == df[i + 1].high
        low(i) == df[i + 1].low
    IN  /\ Returned("find_swing_highs") =>
              /\ \A i \in 0..(n - 1) :
                    Reported(i) <=>
                       /\ w <= i /\ i <= n - 1 - w
                       /\ \A j \in (i - w)..(i + w) : high(j) <= high(i)
              /\ \A k \in DOMAIN ret : ret[k].value = high(ret[k].index)
        /\ Returned("find_swing_lows") =>
              /\ \A i \in 0..(n - 1) :
                    Reported(i) <=>
                       /\ w <= i /\ i <= n - 1 - w
                       /\ \A j \in (i - w)..(i + w) : low(j) >= low(i)
              /\ \A k \in DOMAIN ret : ret[k].value = low(ret[k].index)
        /\ (Returned("find_swing_highs") \/ Returned("find_swing_lows")) =>
              /\ \A i \in 0..(n - 1) : (i < w \/ i > n - 1 - w) => ~Reported(i)
              /\ n < 2 * w + 1 => ret = <<>>
              /\ \A k \in DOMAIN ret : ret[k].index \in 0..(n - 1)

\* a swing high in the middle of a series with window 2, the bar after it
\* higher than every bar before it
C14_Witness ==
    /\ Returned("find_swing_highs") /\ window = 2 /\ Len(df) = 5
    /\ Len(ret) = 1 /\ ret[1].index = 2
    /\ df[4].high > df[1].high /\ df[4].high > df[2].high

-----------------------------------------------------------------------------
(* mtf.py: compute_htf_trend *)

\* minimum candles needed to compute indicators on the higher timeframe
MIN_CANDLES_HTF == 210

\* the series is the frame compute_indicators returns: each bar carries its
\* close and its EMAs, NaN where the library leaves them undefined
compute_htf_trend(frame) ==
    IF Len(frame) < MIN_CANDLES_HTF THEN 0
    ELSE LET last == LastRow(frame)
             ema_21 == last.ema_21
             ema_50 == last.ema_50
             ema_200 == last.ema_200
         IN  IF ~IsDefined(ema_21) \/ ~IsDefined(ema_50) \/ ~IsDefined(ema_200)
             THEN 0
             ELSE LET close == last.close
                      ema_bullish == ema_21 > ema_50
                      above_200 == close > ema_200
                  IN  IF ema_bullish /\ above_200 THEN 1
                      ELSE IF ~ema_bullish /\ ~above_200 THEN -1
                      ELSE 0

-----------------------------------------------------------------------------
(* compute_htf_trend: inputs and runs *)

\* last bars of the higher-timeframe runs: every order of EMA21 against
\* EMA50 and of the close against EMA200, ties and undefined EMAs included
HtfRows ==
    [close : {Sub, 2 * Sub, 3 * Sub},
     ema_21 : {NaN, Sub, 2 * Sub, 3 * Sub},
     ema_50 : {NaN, 2 * Sub},
     ema_200 : {NaN, 2 * Sub}]

\* a bar of the warm-up period: no EMA defined yet
HtfWarmupRow == [close |-> 2 * Sub, ema_21 |-> NaN, ema_50 |-> NaN, ema_200 |-> NaN]

HtfSeries(n, row) == [i \in 1..n |-> IF i = n THEN row ELSE HtfWarmupRow]

\* series lengths around the minimum
HtfLengths == {0, 1, MIN_CANDLES_HTF - 1, MIN_CANDLES_HTF, MIN_CANDLES_HTF + 1}

InitHtf ==
    /\ pc = "call" /\ op = "" /\ ret = NoneObj /\ exc = ""
    /\ \E n \in HtfLengths, row \in HtfRows : htf_df = HtfSeries(n, row)
    /\ df = <<>> /\ higher_tf_trend = 0 /\ levels = NoneObj
    /\ SlTpIdle /\ SizeIdle /\ LevelsIdle /\ ServicesIdle
    /\ ohlcv = <<>> /\ signals = <<>> /\ now = 0 /\ calls = <<>>

ComputeHtfTrend ==
    /\ pc = "call"
    /\ ret' = compute_htf_trend(htf_df)
    /\ op' = "compute_htf_trend" /\ pc' = "return"
    /\ UNCHANGED <<inputs, exc>>

NextHtf == ComputeHtfTrend

SpecHtf == InitHtf /\ [][NextHtf]_vars

\* C15: for a higher-timeframe series of at least 210 bars compute_htf_trend
\* returns +1 iff EMA21 > EMA50 and close > EMA200 on the last bar, -1 iff
\* EMA21 < EMA50 and close < EMA200, and 0 in every other case, including
\* EMA21 = EMA50, close = EMA200, and any of the three EMAs undefined.
C15_HtfTrend ==
    (Returned("compute_htf_trend") /\ Len(htf_df) >= 210) =>
       LET last == LastRow(htf_df)
           defined == /\ IsDefined(last.ema_21) /\ IsDefined(last.ema_50)
                      /\ IsDefined(last.ema_200)
           bullish == defined /\ last.ema_21 > last.ema_50 /\ last.close > last.ema_200
           bearish == defined /\ last.ema_21 < last.ema_50 /\ last.close < last.ema_200
       IN  /\ ret = 1 <=> bullish
           /\ ret = -1 <=> bearish
           /\ ret = 0 <=> (~bullish /\ ~bearish)

-----------------------------------------------------------------------------
(* indicators.py: compute_indicators *)

\* A stored bar carries close, high and low and, for every indicator the
\* ta library derives from the candles up to it, the value the library
\* gives.  compute_indicators on a loaded frame keeps those values, leaves
\* an EMA undefined on the bars before its period has elapsed in the frame,
\* and derives ema_trend from EMA21 and EMA50 as np.where does (a comparison
\* with an undefined EMA is false).
WarmedUp(value, i, period) == IF i >= period THEN value ELSE NaN

EmaTrend(ema_21, ema_50) ==
    IF IsDefined(ema_21) /\ IsDefined(ema_50) /\ ema_21 > ema_50 THEN 1
    ELSE IF IsDefined(ema_21) /\ IsDefined(ema_50) /\ ema_21 < ema_50 THEN -1
    ELSE 0

compute_indicators(frame) ==
    [i \in DOMAIN frame |->
        LET bar == frame[i]
            ema_21 == WarmedUp(bar.ema_21, i, 21)
            ema_50 == WarmedUp(bar.ema_50, i, 50)
            ema_200 == WarmedUp(bar.ema_200, i, 200)
        IN  [close |-> bar.close, high |-> bar.high, low |-> bar.low,
             ema_21 |-> ema_21, ema_50 |-> ema_50, ema_200 |-> ema_200,
             ema_trend |-> EmaTrend(ema_21, ema_50),
             rsi_14 |-> bar.rsi_14, macd_hist |-> bar.macd_hist,
             vol_ratio |-> bar.vol_ratio, bb_middle |-> bar.bb_middle,
             stochrsi_k |-> bar.stochrsi_k, stochrsi_d |-> bar.stochrsi_d,
             atr_14 |-> bar.atr_14]]

-----------------------------------------------------------------------------
(* engine.py *)

\* a minimum that lets a series of 209 bars through
MIN_CANDLES_OneLess == 210 - 1

\* minimum candles for analysis on the working timeframe
MIN_CANDLES == 210

\* cooldown: no more than 1 signal per symbol/timeframe within this window
SIGNAL_COOLDOWN_HOURS == 4

\* signal expiry in hours, per timeframe
SIGNAL_EXPIRY ==
    [tf \in {"5m", "15m", "1h", "4h", "1d"} |->
        CASE tf = "5m" -> 1 [] tf = "15m" -> 4 [] tf = "1h" -> 12
          [] tf = "4h" -> 48 [] tf = "1d" -> 168]

\* working timeframe -> higher timeframe for trend confirmation (mtf.py)
HIGHER_TF_MAP ==
    [tf \in {"5m", "15m", "1h", "4h"} |->
        CASE tf = "5m" -> "1h" [] tf = "15m" -> "4h" [] tf = "1h" -> "4h"
          [] tf = "4h" -> "1d"]

\* the higher timeframe, "" when there is none
get_higher_timeframe(timeframe) ==
    IF timeframe \in DOMAIN HIGHER_TF_MAP THEN HIGHER_TF_MAP[timeframe] ELSE ""

\* adjacent timeframes to check for confluence, per entry timeframe
CONFLUENCE_TIMEFRAMES ==
    [tf \in {"15m", "1h", "4h"} |->
        CASE tf = "15m" -> <<"1h", "4h">> [] tf = "1h" -> <<"4h">>
          [] tf = "4h" -> <<"1d">>]

\* minimum candles for confluence timeframe analysis: the load limit
MIN_CANDLES_CONFLUENCE == 100

\* confidence boost per agreeing timeframe, in thousandths (0.08)
CONFLUENCE_BOOST_PER_TF == 80

\* default arguments of find_support_resistance
DefaultWindow == 5
DefaultTolerance == 5
DefaultMaxLevels == 10

\* the newest `limit` candles of the timeframe, oldest first
load_ohlcv(table, timeframe, limit) ==
    LET rows == IF timeframe \in DOMAIN table THEN table[timeframe] ELSE <<>>
    IN  SubSeq(rows, Max(1, Len(rows) - limit + 1), Len(rows))

\* a cooldown per symbol: a signal of any timeframe blocks
check_cooldown_AnyTimeframe(saved, symbol, timeframe, clock) ==
    LET cutoff == clock - SIGNAL_COOLDOWN_HOURS
    IN  \E i \in DOMAIN saved :
           /\ saved[i].symbol = symbol
           /\ saved[i].source = "technical_analysis"
           /\ saved[i].created_at >= cutoff

\* TRUE iff a technical_analysis signal of the pair was created at or after
\* the cutoff
check_cooldown(saved, symbol, timeframe, clock) ==
    LET cutoff == clock - SIGNAL_COOLDOWN_HOURS
    IN  \E i \in DOMAIN saved :
           /\ saved[i].symbol = symbol
           /\ saved[i].timeframe = timeframe
           /\ saved[i].source = "technical_analysis"
           /\ saved[i].created_at >= cutoff

\* the Signal row written for a candidate
save_signal(candidate, clock) ==
    LET expiry_hours == IF candidate.timeframe \in DOMAIN SIGNAL_EXPIRY
                        THEN SIGNAL_EXPIRY[candidate.timeframe] ELSE 12
    IN  [symbol |-> candidate.symbol,
         direction |-> candidate.direction,
         timeframe |-> candidate.timeframe,
         confidence |-> candidate.confidence,
         entry_price |-> candidate.entry_price,
         stop_loss |-> candidate.stop_loss,
         take_profit_1 |-> candidate.take_profit_1,
         take_profit_2 |-> candidate.take_profit_2,
         take_profit_3 |-> candidate.take_profit_3,
         risk_reward |-> candidate.risk_reward,
         position_size_pct |-> candidate.position_size_pct,
         source |-> "technical_analysis",
         status |-> "new",
         indicators |-> candidate.indicators,
         created_at |-> clock,
         expires_at |-> clock + expiry_hours]

\* an evaluation that raised counted as a long
FirstDirection_RaiseAsLong(out) ==
    IF out.exc # "" THEN "long"
    ELSE IF out.value # <<>> THEN out.value[1].direction ELSE "none"

\* return candidates[0].direction if candidates; None on any exception
FirstDirection(out) ==
    IF out.exc = "" /\ out.value # <<>> THEN out.value[1].direction ELSE "none"

\* candidates = generate_signals(df, "", "", htf_trend, levels)
QuickGenerate(enriched, htf_trend, lvls) ==
    FirstDirection(generate_signals(enriched, "", "", htf_trend, lvls))

\* levels = find_support_resistance(df)
QuickLevels(enriched, htf_trend) ==
    QuickGenerate(enriched, htf_trend,
                  find_support_resistance(enriched, DefaultWindow,
                                          DefaultTolerance, DefaultMaxLevels))

\* the direction of a series' first candidate, "none" without one, on a
\* series shorter than 50 bars and on any exception
quick_signal_direction(frame, htf_trend) ==
    IF Len(frame) < 50 THEN "none"
    ELSE QuickLevels(compute_indicators(frame), htf_trend)

\* the confluence loads that take part (len(ctf_df) >= 50), in the order of
\* CONFLUENCE_TIMEFRAMES
ConfluenceLoads(table, timeframe) ==
    LET ctfs == IF timeframe \in DOMAIN CONFLUENCE_TIMEFRAMES
                THEN CONFLUENCE_TIMEFRAMES[timeframe] ELSE <<>>
        loads == [i \in DOMAIN ctfs |->
                    [timeframe |-> ctfs[i],
                     frame |-> load_ohlcv(table, ctfs[i], MIN_CANDLES_CONFLUENCE)]]
    IN  SelectSeq(loads, LAMBDA l : Len(l.frame) >= 50)

\* the candidate without the cap at 0.90
Boosted_NoCap(candidate, agreements, loaded) ==
    LET boost == Round2(Min(agreements * CONFLUENCE_BOOST_PER_TF, 200))
    IN  [candidate EXCEPT
            !.confidence = Round2(candidate.confidence + boost),
            !.reasons = Append(candidate.reasons,
                "mtf_confluence (" \o ToString(agreements) \o "/"
                    \o ToString(loaded) \o ")")]

\* the candidate after the confluence boost for agreements > 0
Boosted(candidate, agreements, loaded) ==
    LET boost == Round2(Min(agreements * CONFLUENCE_BOOST_PER_TF, 200))
    IN  [candidate EXCEPT
            !.confidence = Round2(Min(candidate.confidence + boost, 900)),
            !.reasons = Append(candidate.reasons,
                "mtf_confluence (" \o ToString(agreements) \o "/"
                    \o ToString(loaded) \o ")")]

\* candidates[0] boosted when confluence loads agree with its direction
BoostFirst(candidates, agreements, loaded) ==
    IF agreements > 0
    THEN [candidates EXCEPT ![1] = Boosted(candidates[1], agreements, loaded)]
    ELSE candidates

ApplyConfluence(candidates, confluence_dfs, htf_trend) ==
    IF candidates # <<>> /\ confluence_dfs # <<>>
    THEN BoostFirst(candidates,
                    Cardinality({i \in DOMAIN confluence_dfs :
                        quick_signal_direction(confluence_dfs[i].frame, htf_trend)
                            = candidates[1].direction}),
                    Len(confluence_dfs))
    ELSE candidates

\* candidate.indicators["levels"] = levels; ["reasons"] = candidate.reasons
WithLevelsAndReasons(candidate, lvls) ==
    [candidate EXCEPT
        !.indicators = ("levels" :> lvls) @@ ("reasons" :> candidate.reasons)
                          @@ candidate.indicators]

\* the compute phase of analyze_symbol: the candidates handed to the write
\* phase, or the exception the phase raises
\* the loop that attaches levels and reasons to every candidate
Attached(candidates, lvls) ==
    [i \in DOMAIN candidates |-> WithLevelsAndReasons(candidates[i], lvls)]

\* the phase from the return of generate_signals on: confluence, attachment
AfterGenerate(call, htf_trend, lvls, out) ==
    IF out.exc # "" THEN [exc |-> out.exc, candidates |-> <<>>]
    ELSE [exc |-> "",
          candidates |->
              Attached(ApplyConfluence(out.value, call.confluence_dfs, htf_trend),
                       lvls)]

\* candidates = generate_signals(df, symbol, timeframe, htf_trend, levels)
AfterLevels(call, enriched, htf_trend, lvls) ==
    AfterGenerate(call, htf_trend, lvls,
                  generate_signals(enriched, call.symbol, call.timeframe,
                                   htf_trend, lvls))

\* levels = find_support_resistance(df)
AfterIndicators(call, enriched, htf_trend) ==
    AfterLevels(call, enriched, htf_trend,
                find_support_resistance(enriched, DefaultWindow,
                                        DefaultTolerance, DefaultMaxLevels))

\* htf_trend: 0 without a higher-timeframe series of MIN_CANDLES_HTF bars
HtfTrendOf(call) ==
    IF call.htf_df # NoneObj /\ Len(call.htf_df) >= MIN_CANDLES_HTF
    THEN compute_htf_trend(compute_indicators(call.htf_df))
    ELSE 0

ComputePhase(call) ==
    AfterIndicators(call, compute_indicators(call.df), HtfTrendOf(call))

Call(symbol, timeframe) ==
    [phase |-> "start", symbol |-> symbol, timeframe |-> timeframe,
     df |-> <<>>, htf_df |-> NoneObj, confluence_dfs |-> <<>>,
     candidates |-> <<>>, saved |-> <<>>, exc |-> ""]

\* analyze_symbol up to the end of the read session: cooldown check, loads
ReadPhase(p) ==
    /\ calls[p].phase = "start"
    /\ LET call == calls[p]
           htf == get_higher_timeframe(call.timeframe)
       IN  IF check_cooldown(signals, call.symbol, call.timeframe, now)
           THEN calls' = [calls EXCEPT ![p].phase = "done"]
           ELSE calls' = [calls EXCEPT
                   ![p].phase = "loaded",
                   ![p].df = load_ohlcv(ohlcv, call.timeframe, MIN_CANDLES),
                   ![p].htf_df = IF htf # ""
                                 THEN load_ohlcv(ohlcv, htf, MIN_CANDLES_HTF)
                                 ELSE NoneObj,
                   ![p].confluence_dfs = ConfluenceLoads(ohlcv, call.timeframe)]
    /\ UNCHANGED <<ohlcv, signals, now, pc, op, ret, exc, args, services>>

\* the rows the write session adds, one per candidate
Written(candidates, clock) ==
    [i \in DOMAIN candidates |-> save_signal(candidates[i], clock)]

\* the write session on the outcome of the compute phase: an exception of
\* the phase leaves analyze_symbol before the session opens
WriteSession(p, out) ==
    IF out.exc # ""
    THEN /\ calls' = [calls EXCEPT ![p].phase = "raised", ![p].exc = out.exc]
         /\ UNCHANGED signals
    ELSE /\ signals' = signals \o Written(out.candidates, now)
         /\ calls' = [calls EXCEPT
                         ![p].phase = "done",
                         ![p].candidates = out.candidates,
                         ![p].saved = Written(out.candidates, now)]

\* analyze_symbol from the length check on: compute phase and write session
WritePhase(p) ==
    /\ calls[p].phase = "loaded"
    /\ LET call == calls[p]
       IN  IF Len(call.df) < MIN_CANDLES
           THEN /\ calls' = [calls EXCEPT ![p].phase = "done"]
                /\ UNCHANGED signals
           ELSE WriteSession(p, ComputePhase(call))
    /\ UNCHANGED <<ohlcv, now, pc, op, ret, exc, args, services>>

-----------------------------------------------------------------------------
(* analyze_symbol: stored candles and runs *)

\* close of every stored bar, in units of 0.00000001
StoredCloseUnits == 100
StoredClose == StoredCloseUnits * Sub

\* ATR of the last stored bar: 2 units
StoredAtr == 2 * Sub

\* the highs climb and the lows sink for SwingPeriod bars and then start
\* over, which puts one swing high and one swing low at the end of each run
SwingPeriod == 60

\* bar i of a stored series; EMA21 lies t units above EMA50
StoredBar(i, t, e200, rsi, vol, bb, a) ==
    [close |-> StoredClose,
     high |-> StoredClose + Sub + (i % SwingPeriod),
     low |-> StoredClose - Sub - (i % SwingPeriod),
     ema_21 |-> StoredClose + t * Sub, ema_50 |-> StoredClose,
     ema_200 |-> e200, rsi_14 |-> rsi, macd_hist |-> NaN, vol_ratio |-> vol,
     bb_middle |-> bb, stochrsi_k |-> NaN, stochrsi_d |-> NaN, atr_14 |-> a]

\* a stored series of n bars: a flat history, then the given last bar
StoredSeries(n, t, e200, rsi, vol, bb, a) ==
    [i \in 1..n |->
        IF i = n THEN StoredBar(i, t, e200, rsi, vol, bb, a)
        ELSE StoredBar(i, 0, StoredClose, NaN, NaN, NaN, StoredAtr)]

\* indicator profiles of the last working bar (RSI, volume ratio, Bollinger
\* middle): confidence 0.50, 0.55 and 0.75 before the higher-timeframe bonus
WorkingProfiles ==
    {<<NaN, NaN, NaN>>, <<NaN, NaN, StoredClose + Sub>>, <<40, 11, StoredClose + Sub>>}

\* working timeframe: one bar short of the minimum or at it
WorkingSeries ==
    {StoredSeries(n, t, StoredClose, pr[1], pr[2], pr[3], StoredAtr) :
        n \in {MIN_CANDLES - 1, MIN_CANDLES}, t \in Trends, pr \in WorkingProfiles}

\* first confluence timeframe: below and at 50 bars, at the load limit
ConfluenceSeries ==
    {StoredSeries(n, t, StoredClose, NaN, vol, NaN, StoredAtr) :
        n \in {49, 50, MIN_CANDLES_CONFLUENCE}, t \in Trends, vol \in {NaN, 11}}

\* higher timeframe, also the second confluence timeframe
HigherSeries ==
    {StoredSeries(n, t, e200, NaN, vol, NaN, StoredAtr) :
        n \in {49, MIN_CANDLES_HTF}, t \in Trends,
        e200 \in {StoredClose - Sub, StoredClose + Sub}, vol \in {NaN, 11}}

\* the variables a run of analyze_symbol does not use
FunctionsIdle ==
    /\ pc = "call" /\ op = "" /\ ret = NoneObj /\ exc = ""
    /\ df = <<>> /\ higher_tf_trend = 0 /\ levels = NoneObj /\ htf_df = <<>>
    /\ SlTpIdle /\ SizeIdle /\ LevelsIdle /\ ServicesIdle

InitAnalyze ==
    /\ FunctionsIdle
    /\ \E w \in WorkingSeries, c \in ConfluenceSeries, h \in HigherSeries :
          ohlcv = [tf \in {"15m", "1h", "4h"} |->
                      IF tf = "15m" THEN w ELSE IF tf = "1h" THEN c ELSE h]
    /\ signals = <<>> /\ now = 0
    /\ calls = <<Call("BTCUSDT", "15m")>>

NextAnalyze == \E p \in DOMAIN calls : ReadPhase(p) \/ WritePhase(p)

SpecAnalyze == InitAnalyze /\ [][NextAnalyze]_vars

-----------------------------------------------------------------------------
(* Properties of the confluence boost (SpecAnalyze) *)

\* the higher-timeframe trend of an invocation
TrendOf(call) ==
    IF call.htf_df # NoneObj /\ Len(call.htf_df) >= 210
    THEN compute_htf_trend(compute_indicators(call.htf_df)) ELSE 0

\* the candidates generate_signals returns to an invocation
OriginalOf(call) ==
    LET enriched == compute_indicators(call.df)
    IN  generate_signals(enriched, call.symbol, call.timeframe, TrendOf(call),
                         find_support_resistance(enriched, 5, 5, 10)).value

\* the confluence timeframes whose quick direction is dir
Agreeing(call, dir) ==
    {i \in DOMAIN call.confluence_dfs :
        quick_signal_direction(call.confluence_dfs[i].frame, TrendOf(call)) = dir}

\* the invocation ran to its end on a working series of full length
Analyzed(call) == call.phase = "done" /\ Len(call.df) >= 210

\* C16: with k the number of confluence timeframes whose quick direction
\* equals the primary candidate's direction, k >= 1 makes the confidence
\* min(original + min(k*0.08, 0.20), 0.90) rounded to 2 decimals and appends
\* exactly one reason recording k and the number of confluence timeframes;
\* with k = 0 or no confluence data, confidence and reasons are unchanged.
\* The boost is applied at most once, never lowers the confidence and never
\* takes it above 0.90 (2 of 2 agreeing gives +0.16).
C16_ConfluenceBoost ==
    \A p \in DOMAIN calls :
       LET call == calls[p]
           original == OriginalOf(call)
       IN  (Analyzed(call) /\ original # <<>>) =>
              LET first == original[1]
                  final == call.candidates[1]
                  k == Cardinality(Agreeing(call, first.direction))
                  n == Len(call.confluence_dfs)
                  tag == "mtf_confluence (" \o ToString(k) \o "/" \o ToString(n) \o ")"
              IN  /\ Len(call.saved) = 1
                  /\ call.saved[1].confidence = final.confidence
                  /\ k >= 1 =>
                        /\ final.confidence
                              = 10 * RoundHalfEven(Min(first.confidence + Min(k * 80, 200), 900), 10)
                        /\ final.reasons = Append(first.reasons, tag)
                  /\ k = 0 =>
                        /\ final.confidence = first.confidence
                        /\ final.reasons = first.reasons
                  /\ final.confidence >= first.confidence
                  /\ final.confidence <= 900
                  /\ (k = 2 /\ n = 2 /\ first.confidence <= 740) =>
                        final.confidence = first.confidence + 160

\* a candidate at 0.55 lifted to 0.71 by two agreeing timeframes of two
C16_Witness ==
    \E p \in DOMAIN calls :
       /\ Analyzed(calls[p]) /\ Len(calls[p].saved) = 1
       /\ OriginalOf(calls[p])[1].confidence = 550
       /\ calls[p].saved[1].confidence = 710
       /\ Len(calls[p].confluence_dfs) = 2

\* C17: a confluence timeframe takes part in the agreement count only when
\* its loaded series has at least the confluence minimum of 100 bars; a
\* series with fewer than 100 bars contributes no agreement and is not
\* counted in the denominator of the recorded agreement ratio.
C17_ConfluenceMinimum ==
    \A p \in DOMAIN calls :
       \A i \in DOMAIN calls[p].confluence_dfs :
          Len(calls[p].confluence_dfs[i].frame) >= 100

-----------------------------------------------------------------------------
(* Concurrent invocations of analyze_symbol for one pair *)

\* the clock runs over 0..MaxClock hours
MaxClock == 6

\* at most MaxCalls invocations are started
MaxCalls == 2

\* a working series whose last bar gives a long candidate at 0.55; no higher
\* or confluence candles are stored
InitCooldown ==
    /\ FunctionsIdle
    /\ ohlcv = [tf \in {"1h"} |->
                   StoredSeries(MIN_CANDLES, 1, StoredClose, NaN, NaN,
                                StoredClose + Sub, StoredAtr)]
    /\ signals = <<>> /\ now = 0 /\ calls = <<>>

\* analyze_all, a scheduler run or a command starts analyze_symbol for the
\* pair; nothing in analyze_symbol waits for an earlier invocation
Invoke ==
    /\ Len(calls) < MaxCalls
    /\ calls' = Append(calls, Call("BTCUSDT", "1h"))
    /\ UNCHANGED <<ohlcv, signals, now, pc, op, ret, exc, args, services>>

\* an hour passes
Tick ==
    /\ now < MaxClock
    /\ now' = now + 1
    /\ UNCHANGED <<ohlcv, signals, calls, pc, op, ret, exc, args, services>>

NextCooldown ==
    \/ Invoke
    \/ Tick
    \/ \E p \in DOMAIN calls : ReadPhase(p)
    \/ \E p \in DOMAIN calls : WritePhase(p)

SpecCooldown == InitCooldown /\ [][NextCooldown]_vars

\* C18: for any symbol and timeframe and any interleaving of analyze_symbol
\* invocations for that pair, overlapping ones included, no two signals with
\* source technical_analysis for that symbol/timeframe are saved less than
\* SIGNAL_COOLDOWN_HOURS (4 hours) apart.
C18_NoDuplicateWithinCooldown ==
    \A i, j \in DOMAIN signals :
       (/\ i < j
        /\ signals[i].symbol = signals[j].symbol
        /\ signals[i].timeframe = signals[j].timeframe
        /\ signals[i].source = "technical_analysis"
        /\ signals[j].source = "technical_analysis")
          => signals[j].created_at - signals[i].created_at >= 4

-----------------------------------------------------------------------------
(* screener.py: compute_score *)

\* minimum candles needed for screener analysis
MIN_CANDLES_SCREEN == 50

\* weights for the composite score
WEIGHT_TREND == 30
WEIGHT_VOLUME == 25
WEIGHT_VOLATILITY == 20
WEIGHT_RSI_SETUP == 25

\* A score is a fraction over the scale K of the run: K is the close when
\* it is positive (the volatility score divides by the close) and 1
\* otherwise, so every score times K is an integer.
ScoreScale(close) == IF close > 0 THEN close ELSE 1

\* trend score: 50, +-25 for EMA21 against EMA50, +-25 for close against EMA200
TrendScore(last) ==
    LET base == 50
        after_cross == IF IsDefined(last.ema_21) /\ IsDefined(last.ema_50)
                       THEN IF last.ema_21 > last.ema_50 THEN base + 25 ELSE base - 25
                       ELSE base
        after_200 == IF IsDefined(last.ema_200)
                     THEN IF last.close > last.ema_200 THEN after_cross + 25
                          ELSE after_cross - 25
                     ELSE after_cross
    IN  Max(Min(after_200, 100), 0)

TrendLabel(trend_score) ==
    IF trend_score >= 70 THEN "bullish"
    ELSE IF trend_score <= 30 THEN "bearish"
    ELSE "neutral"

\* the volume score without its cap at 100
VolumeScore_NoCap(last) ==
    IF IsDefined(last.vol_ratio) THEN last.vol_ratio * 5 ELSE 50

\* min(vol_ratio * 50, 100), vol_ratio in tenths
VolumeScore(last) ==
    IF IsDefined(last.vol_ratio) THEN Min(last.vol_ratio * 5, 100) ELSE 50

\* volatility score times K: atr_pct = atr / close * 100
VolatilityScoreK(last) ==
    LET a == last.atr_14
        close == last.close
    IN  IF IsDefined(a) /\ close > 0
        THEN IF close <= 100 * a /\ 100 * a <= 3 * close THEN 100 * close
             ELSE IF 100 * a < close THEN 10000 * a
             ELSE Max(160 * close - 2000 * a, 20 * close)
        ELSE 50 * ScoreScale(close)

RsiScore(last) ==
    LET rsi == last.rsi_14
    IN  IF IsDefined(rsi)
        THEN IF 30 <= rsi /\ rsi <= 50 THEN 90
             ELSE IF 50 < rsi /\ rsi <= 65 THEN 70
             ELSE IF 65 < rsi /\ rsi <= 80 THEN 40
             ELSE IF rsi < 30 THEN 60
             ELSE 20
        ELSE 50

\* round(x, 1) of the score num / den, in tenths
Round1(num, den) == RoundHalfEven(10 * num, den)

\* the fields of the result that carry the scores
compute_score(frame) ==
    IF Len(frame) < MIN_CANDLES_SCREEN THEN [score |-> 0, skip |-> TRUE]
    ELSE LET last == LastRow(compute_indicators(frame))
             K == ScoreScale(last.close)
             trend_score == TrendScore(last)
             volume_score == VolumeScore(last)
             volatility_scoreK == VolatilityScoreK(last)
             rsi_score == RsiScore(last)
             compositeK == trend_score * K * WEIGHT_TREND
                            + volume_score * K * WEIGHT_VOLUME
                            + volatility_scoreK * WEIGHT_VOLATILITY
                            + rsi_score * K * WEIGHT_RSI_SETUP
             weights == WEIGHT_TREND + WEIGHT_VOLUME + WEIGHT_VOLATILITY
                           + WEIGHT_RSI_SETUP
         IN  [score |-> Round1(compositeK, weights * K),
              trend |-> TrendLabel(trend_score),
              trend_score |-> Round1(trend_score, 1),
              volume_score |-> Round1(volume_score, 1),
              volatility_score |-> Round1(volatility_scoreK, K),
              rsi_score |-> Round1(rsi_score, 1),
              rsi |-> IF IsDefined(last.rsi_14) THEN Round1(last.rsi_14, 1) ELSE None,
              close |-> last.close,
              skip |-> FALSE]

-----------------------------------------------------------------------------
(* compute_score: inputs and runs *)

\* a series of n bars ending in a bar with the given close and indicators
ScoreSeries(n, c, e21, e200, rsi, vol, a) ==
    [i \in 1..n |->
        IF i = n
        THEN [StoredBar(i, 0, e200, rsi, vol, NaN, a) EXCEPT !.close = c, !.ema_21 = e21]
        ELSE StoredBar(i, 0, StoredClose, NaN, NaN, NaN, StoredAtr)]

\* RSI on both sides of every band edge
ScoreRsi == {NaN, 0, 29, 30, 50, 51, 65, 66, 80, 81, 100}

\* volume ratio in tenths: none, 0, up to the cap at 2.0 and beyond
ScoreVolRatio == {NaN, 0, 5, 20, 21, 50}

\* ATR as a share of the close, in 1/10000: 0, 0.5%, 1%, 3%, 3.5%, 100%
ScoreAtrShares == {0, 50, 100, 300, 350, 10000}

ScoreAtr == {NaN} \cup {(StoredClose * s) \div 10000 : s \in ScoreAtrShares}

\* one bar short of the minimum; at the minimum; past the EMA200 warm-up
InitScore ==
    /\ pc = "call" /\ op = "" /\ ret = NoneObj /\ exc = ""
    /\ \/ \E rsi \in ScoreRsi :
             df = ScoreSeries(MIN_CANDLES_SCREEN - 1, StoredClose, NaN, NaN, rsi, NaN, NaN)
       \/ \E n \in {MIN_CANDLES_SCREEN, 200},
             c \in {0, StoredClose},
             e21 \in {NaN, StoredClose - Sub, StoredClose + Sub},
             e200 \in {NaN, StoredClose - Sub, StoredClose + Sub},
             rsi \in ScoreRsi, vol \in ScoreVolRatio, a \in ScoreAtr :
                df = ScoreSeries(n, c, e21, e200, rsi, vol, a)
    /\ higher_tf_trend = 0 /\ levels = NoneObj
    /\ SlTpIdle /\ SizeIdle /\ LevelsIdle /\ HtfIdle

ComputeScore ==
    /\ pc = "call"
    /\ ret' = compute_score(df)
    /\ op' = "compute_score" /\ pc' = "return"
    /\ UNCHANGED <<inputs, exc>>

NextScore == ComputeScore

SpecScore == InitScore /\ [][NextScore]_vars

\* C20: for every series of at least 50 bars with non-negative prices and
\* volumes, compute_score's composite score lies in [0, 100]: each of the
\* trend, volume, volatility and RSI sub-scores lies in [0, 100] whether its
\* indicator is defined or undefined, and the composite is their average
\* weighted 30/25/20/25 over the weight sum 100 (scores are reported at one
\* decimal, so the reported composite is within 0.1 of the weighted average
\* of the reported sub-scores).
C20_ScoreRange ==
    (Returned("compute_score") /\ Len(df) >= 50) =>
       /\ ret.skip = FALSE
       /\ ret.score \in 0..1000
       /\ ret.trend_score \in 0..1000
       /\ ret.volume_score \in 0..1000
       /\ ret.volatility_score \in 0..1000
       /\ ret.rsi_score \in 0..1000
       /\ Abs(100 * ret.score
                - (30 * ret.trend_score + 25 * ret.volume_score
                     + 20 * ret.volatility_score + 25 * ret.rsi_score)) <= 100

\* every indicator undefined except a volume ratio beyond the cap
C20_Witness ==
    /\ Returned("compute_score") /\ Len(df) = 50
    /\ ~IsDefined(LastRow(df).rsi_14) /\ ~IsDefined(LastRow(df).atr_14)
    /\ ~IsDefined(LastRow(df).ema_21)
    /\ LastRow(df).vol_ratio = 50
    /\ ret.volume_score = 1000 /\ ret.rsi_score = 500
    /\ ret.volatility_score = 500 /\ ret.trend_score = 500
    /\ ret.score = 625

-----------------------------------------------------------------------------
(* indicators.py: detect_divergences *)

\* the values of a column at the last two swing points, <<previous, last>>
LastTwo(frame, swings, name) ==
    <<frame[swings[Len(swings) - 1].index + 1][name],
      frame[swings[Len(swings)].index + 1][name]>>

BothDefined(pair) == IsDefined(pair[1]) /\ IsDefined(pair[2])

detect_divergences(frame, w) ==
    IF Len(frame) < w * 4
    THEN [bullish_rsi |-> FALSE, bearish_rsi |-> FALSE,
          bullish_macd |-> FALSE, bearish_macd |-> FALSE]
    ELSE LET swing_low_idx == find_swing_lows(frame, w)
             swing_high_idx == find_swing_highs(frame, w)
             lower_low ==
                /\ Len(swing_low_idx) >= 2
                /\ LastTwo(frame, swing_low_idx, "close")[2]
                      < LastTwo(frame, swing_low_idx, "close")[1]
             higher_high ==
                /\ Len(swing_high_idx) >= 2
                /\ LastTwo(frame, swing_high_idx, "close")[2]
                      > LastTwo(frame, swing_high_idx, "close")[1]
             Higher(swings, name) ==
                /\ BothDefined(LastTwo(frame, swings, name))
                /\ LastTwo(frame, swings, name)[2] > LastTwo(frame, swings, name)[1]
             Lower(swings, name) ==
                /\ BothDefined(LastTwo(frame, swings, name))
                /\ LastTwo(frame, swings, name)[2] < LastTwo(frame, swings, name)[1]
         IN  [bullish_rsi |-> lower_low /\ Higher(swing_low_idx, "rsi_14"),
              bearish_rsi |-> higher_high /\ Lower(swing_high_idx, "rsi_14"),
              bullish_macd |-> lower_low /\ Higher(swing_low_idx, "macd_hist"),
              bearish_macd |-> higher_high /\ Lower(swing_high_idx, "macd_hist")]

-----------------------------------------------------------------------------
(* Every component on a series around its minimum length *)

\* series lengths on both sides of the minima 2, 4 * window, 50 and 210
ShortLengths == {0, 1, 2, 3, 4, 19, 20, 49, 50, 209, 210}

\* stored series whose last bar gives a long candidate at 0.55 (bullish EMA
\* order) or none (EMAs equal)
ShortSeries ==
    {StoredSeries(n, t, StoredClose, NaN, NaN, StoredClose + Sub, StoredAtr) :
        n \in ShortLengths, t \in {0, 1}}

InitShort ==
    /\ pc = "call" /\ op = "" /\ ret = NoneObj /\ exc = ""
    /\ \E s \in ShortSeries :
          /\ df = compute_indicators(s)
          /\ htf_df = compute_indicators(s)
          /\ ohlcv = [tf \in {"15m"} |-> s]
    /\ window \in {1, DefaultWindow}
    /\ higher_tf_trend = 0 /\ levels = NoneObj
    /\ price = NaN /\ values = <<>> /\ tolerance_pct = NaN /\ max_levels = NaN
    /\ SlTpIdle /\ SizeIdle /\ ServicesIdle
    /\ signals = <<>> /\ now = 0
    /\ calls = <<Call("BTCUSDT", "15m")>>

DetectDivergences ==
    /\ pc = "call" /\ window # NaN
    /\ ret' = detect_divergences(df, window)
    /\ op' = "detect_divergences" /\ pc' = "return"
    /\ UNCHANGED <<inputs, exc>>

QuickSignalDirection ==
    /\ pc = "call"
    /\ ret' = quick_signal_direction(df, higher_tf_trend)
    /\ op' = "_quick_signal_direction" /\ pc' = "return"
    /\ UNCHANGED <<inputs, exc>>

NextShort ==
    \/ GenerateSignals
    \/ ComputeHtfTrend
    \/ ComputeScore
    \/ DetectDivergences
    \/ QuickSignalDirection
    \/ \E p \in DOMAIN calls : ReadPhase(p)
    \/ \E p \in DOMAIN calls : WritePhase(p)

SpecShort == InitShort /\ [][NextShort]_vars

\* the stored candles of the timeframe an invocation works on
StoredOf(call) ==
    IF call.timeframe \in DOMAIN ohlcv THEN ohlcv[call.timeframe] ELSE <<>>

\* C19: every component returns its neutral result and raises no exception
\* on a series shorter than its minimum: generate_signals returns [] for
\* fewer than 2 bars, compute_htf_trend 0 for fewer than 210 bars,
\* compute_score skip=true with score 0 for fewer than 50 bars,
\* detect_divergences all four flags false for fewer than 4*window bars,
\* _quick_signal_direction none for fewer than 50 bars, and analyze_symbol
\* saves no signal when the working timeframe has fewer than 210 bars.
C19_ShortSeries ==
    /\ (Returned("generate_signals") /\ Len(df) < 2) =>
          ret.value = <<>> /\ exc = ""
    /\ (Returned("compute_htf_trend") /\ Len(htf_df) < 210) =>
          ret = 0 /\ exc = ""
    /\ (Returned("compute_score") /\ Len(df) < 50) =>
          ret.skip = TRUE /\ ret.score = 0 /\ exc = ""
    /\ (Returned("detect_divergences") /\ Len(df) < 4 * window) =>
          /\ ret = [bullish_rsi |-> FALSE, bearish_rsi |-> FALSE,
                    bullish_macd |-> FALSE, bearish_macd |-> FALSE]
          /\ exc = ""
    /\ (Returned("_quick_signal_direction") /\ Len(df) < 50) =>
          ret = "none" /\ exc = ""
    /\ \A p \in DOMAIN calls :
          Len(StoredOf(calls[p])) < 210 =>
             /\ calls[p].phase # "raised"
             /\ calls[p].saved = <<>>
             /\ signals = <<>>

\* analyze_symbol ran to its end on 209 bars whose last bar would give a
\* candidate, and compute_htf_trend returned on the same 209 bars
C19_Witness ==
    /\ Returned("compute_htf_trend") /\ Len(htf_df) = 209 /\ ret = 0
    /\ \E p \in DOMAIN calls :
          /\ calls[p].phase = "done" /\ Len(calls[p].df) = 209
          /\ OriginalOf(calls[p]) # <<>>
          /\ signals = <<>>


-----------------------------------------------------------------------------
(* The candidate between generate_signals and save_signal (SpecAnalyze) *)

\* the fields of a candidate other than confidence, reasons and indicators
FixedFields ==
    {"symbol", "direction", "timeframe", "entry_price", "stop_loss",
     "take_profit_1", "take_profit_2", "take_profit_3", "risk_reward",
     "position_size_pct"}

\* the saved row carries the created candidate's fixed fields
KeepsFixedFields(created, row) == \A f \in FixedFields : row[f] = created[f]

\* the saved row carries the created candidate's indicator snapshot
KeepsSnapshot(created, row) == row.indicators = created.indicators

\* the candidate generate_signals created and the row save_signal wrote agree
\* on every field but confidence (and reasons, which the row does not carry)
Unchanged(created, row) ==
    KeepsFixedFields(created, row) /\ KeepsSnapshot(created, row)

\* C21: between its creation by generate_signals and its persistence by
\* save_signal inside analyze_symbol, the only fields of a candidate that
\* change are confidence and reasons (at most once, in the confluence step);
\* symbol, direction, timeframe, entry price, stop-loss, take-profits,
\* risk_reward, position size and the indicator snapshot are left unchanged.
C21_CandidateFrame ==
    \A p \in DOMAIN calls :
       (Analyzed(calls[p]) /\ Len(calls[p].saved) = 1) =>
          Unchanged(OriginalOf(calls[p])[1], calls[p].saved[1])

\* the part of C21 on the fixed fields alone
C21_FixedFieldsKept ==
    \A p \in DOMAIN calls :
       (Analyzed(calls[p]) /\ Len(calls[p].saved) = 1) =>
          KeepsFixedFields(OriginalOf(calls[p])[1], calls[p].saved[1])


-----------------------------------------------------------------------------
(* Inputs of detect_divergences *)

\* longest series handed to detect_divergences
MaxDivLen == 6

\* a bar of a divergence series, prices in units of 0.00000001
DivBar(l, c, h, rsi, macd) ==
    [low |-> l * Sub, close |-> c * Sub, high |-> h * Sub,
     rsi_14 |-> rsi, macd_hist |-> macd]

\* bars 2 and 4: the low, the close and the high each at one of two heights,
\* RSI and histogram undefined or at one of two values
DivSwingBars ==
    {DivBar(l, c, h, rsi, macd) :
        l \in {98, 99}, c \in {100, 101}, h \in {102, 103},
        rsi \in {NaN, 40, 60}, macd \in {NaN, -1, 1}}

\* bar 3: between the two, or a swing point itself
DivMiddleBars ==
    {DivBar(l, 100, h, 50, 0) : l \in {98, 100}, h \in {101, 103}}

\* the other bars
DivEdgeBar == DivBar(99, 100, 102, 50, 0)

DivSeries(n, b2, b3, b4) ==
    [i \in 1..n |-> IF i = 2 THEN b2 ELSE IF i = 3 THEN b3
                    ELSE IF i = 4 THEN b4 ELSE DivEdgeBar]

InitDiv ==
    /\ pc = "call" /\ op = "" /\ ret = NoneObj /\ exc = ""
    /\ \E n \in 3..MaxDivLen, b2 \in DivSwingBars, b3 \in DivMiddleBars,
          b4 \in DivSwingBars : df = DivSeries(n, b2, b3, b4)
    /\ window = 1
    /\ higher_tf_trend = 0 /\ levels = NoneObj
    /\ price = NaN /\ values = <<>> /\ tolerance_pct = NaN /\ max_levels = NaN
    /\ SlTpIdle /\ SizeIdle /\ HtfIdle

NextDiv == DetectDivergences

SpecDiv == InitDiv /\ [][NextDiv]_vars

-----------------------------------------------------------------------------
(* Properties of detect_divergences (SpecDiv) *)

\* the bars whose low (side = "low") or high is the extreme of the centred
\* window around them, by position in the series
SwingPoints(side) ==
    {i \in DOMAIN df :
        /\ (i - window)..(i + window) \subseteq DOMAIN df
        /\ \A j \in (i - window)..(i + window) :
              IF side = "low" THEN df[i].low <= df[j].low
              ELSE df[i].high >= df[j].high}

\* the latest swing point of a side and the one before it
Latest(side) == SetMax(SwingPoints(side))
Previous(side) == SetMax(SwingPoints(side) \ {Latest(side)})

\* the flag the rule gives on one side for one indicator column, with the
\* price of a swing point read from the column price_col
Diverges(side, price_col, name) ==
    /\ Len(df) >= 4 * window
    /\ Cardinality(SwingPoints(side)) >= 2
    /\ IF side = "low"
       THEN df[Latest(side)][price_col] < df[Previous(side)][price_col]
       ELSE df[Latest(side)][price_col] > df[Previous(side)][price_col]
    /\ IsDefined(df[Latest(side)][name])
    /\ IsDefined(df[Previous(side)][name])
    /\ IF side = "low"
       THEN df[Latest(side)][name] > df[Previous(side)][name]
       ELSE df[Latest(side)][name] < df[Previous(side)][name]

\* C22: detect_divergences sets bullish_rsi exactly when the series has at
\* least 4*window bars, at least two swing lows exist, the price of the
\* latest swing low is lower than the price of the previous swing low, and
\* the RSI at the latest swing low is defined and greater than the defined
\* RSI at the previous one; bearish_rsi is the mirror on the last two swing
\* highs; bullish_macd and bearish_macd apply the same rule to the MACD
\* histogram independently of the RSI flags.  The price of a swing low is
\* its low, the price of a swing high its high.
C22_Divergences ==
    Returned("detect_divergences") =>
       /\ ret.bullish_rsi = Diverges("low", "low", "rsi_14")
       /\ ret.bearish_rsi = Diverges("high", "high", "rsi_14")
       /\ ret.bullish_macd = Diverges("low", "low", "macd_hist")
       /\ ret.bearish_macd = Diverges("high", "high", "macd_hist")

\* the rule with the close of the swing bar as the price of a swing point
C22_DivergencesOnClose ==
    Returned("detect_divergences") =>
       /\ ret.bullish_rsi = Diverges("low", "close", "rsi_14")
       /\ ret.bearish_rsi = Diverges("high", "close", "rsi_14")
       /\ ret.bullish_macd = Diverges("low", "close", "macd_hist")
       /\ ret.bearish_macd = Diverges("high", "close", "macd_hist")


-----------------------------------------------------------------------------
(* evaluate_short against evaluate_long on mirrored inputs (SpecEval) *)

Negated(x) == IF IsDefined(x) THEN -x ELSE NaN

\* a price on the other side of the close, at the same distance
Reflected(x, close) == IF IsDefined(x) THEN 2 * close - x ELSE NaN

\* the bar with ema_trend negated, EMA200 and the Bollinger middle on the
\* other side of the close, RSI replaced by 100 - RSI, the histogram negated,
\* StochRSI K and D swapped
Mirror(row) ==
    [row EXCEPT
        !.ema_trend = Negated(row.ema_trend),
        !.ema_200 = Reflected(row.ema_200, row.close),
        !.bb_middle = Reflected(row.bb_middle, row.close),
        !.rsi_14 = IF IsDefined(row.rsi_14) THEN 100 - row.rsi_14 ELSE NaN,
        !.macd_hist = Negated(row.macd_hist),
        !.stochrsi_k = row.stochrsi_d,
        !.stochrsi_d = row.stochrsi_k]

MirrorPrev(prev_row) == IF prev_row = NoneObj THEN NoneObj ELSE Mirror(prev_row)

\* the two evaluations agree on the confidence and on the number of reasons
SameVerdict(a, b) ==
    a.confidence = b.confidence /\ Len(a.reasons) = Len(b.reasons)

\* C23: evaluate_short is the exact mirror of evaluate_long: for every bar,
\* previous bar and higher-timeframe trend, evaluate_short returns the same
\* confidence as evaluate_long on the mirrored inputs, and the two reason
\* lists have the same length.
C23_ShortMirrorsLong ==
    /\ Returned("evaluate_short") =>
          SameVerdict(ret, evaluate_long(Mirror(Bar), MirrorPrev(PrevBar),
                                         -higher_tf_trend))
    /\ Returned("evaluate_long") =>
          SameVerdict(ret, evaluate_short(Mirror(Bar), MirrorPrev(PrevBar),
                                          -higher_tf_trend))

\* a short at 0.75: RSI 70 (bounce), histogram at zero after a positive one
\* (cross-down), close above the Bollinger middle, K below D, higher
\* timeframe against it; the mirrored bar has RSI 30 and K above D
C23_Witness ==
    /\ Returned("evaluate_short")
    /\ Bar.ema_trend = -1 /\ Bar.ema_200 = Bar.close
    /\ Bar.rsi_14 = 70 /\ Bar.macd_hist = 0
    /\ PrevBar # NoneObj /\ PrevBar.macd_hist = 1
    /\ Bar.vol_ratio = 11 /\ Bar.bb_middle = Bar.close - Sub
    /\ Bar.stochrsi_k = 0 /\ Bar.stochrsi_d = 1
    /\ higher_tf_trend = 1
    /\ ret.confidence = 750 /\ Len(ret.reasons) = 7
    /\ Mirror(Bar).rsi_14 = 30 /\ Mirror(Bar).stochrsi_k = 1


-----------------------------------------------------------------------------
(* The MACD cross adjustments (SpecEval) *)

Has(reasons, reason) == \E i \in DOMAIN reasons : reasons[i] = reason

\* C24: whenever evaluate_long adds the reason macd_cross_up, the histogram
\* was negative on the previous bar and is no longer negative on the current
\* bar; whenever evaluate_short adds macd_cross_down, the histogram was
\* positive on the previous bar and is no longer positive on the current bar.
C24_MacdCross ==
    /\ (Returned("evaluate_long") /\ Has(ret.reasons, "macd_cross_up")) =>
          /\ PrevBar # NoneObj
          /\ IsDefined(PrevBar.macd_hist) /\ PrevBar.macd_hist < 0
          /\ IsDefined(Bar.macd_hist) /\ Bar.macd_hist >= 0
    /\ (Returned("evaluate_short") /\ Has(ret.reasons, "macd_cross_down")) =>
          /\ PrevBar # NoneObj
          /\ IsDefined(PrevBar.macd_hist) /\ PrevBar.macd_hist > 0
          /\ IsDefined(Bar.macd_hist) /\ Bar.macd_hist <= 0

\* what the adjustment marks: the previous histogram on the named side of
\* zero and the current one not beyond zero on the other side
C24_PreviousSide ==
    /\ (Returned("evaluate_long") /\ Has(ret.reasons, "macd_cross_up")) =>
          /\ PrevBar # NoneObj
          /\ IsDefined(PrevBar.macd_hist) /\ PrevBar.macd_hist < 0
          /\ IsDefined(Bar.macd_hist) /\ Bar.macd_hist <= 0
    /\ (Returned("evaluate_short") /\ Has(ret.reasons, "macd_cross_down")) =>
          /\ PrevBar # NoneObj
          /\ IsDefined(PrevBar.macd_hist) /\ PrevBar.macd_hist > 0
          /\ IsDefined(Bar.macd_hist) /\ Bar.macd_hist >= 0


-----------------------------------------------------------------------------
(* analyze_symbol with a confluence timeframe that fails *)

\* a stored series whose last close is zero: the entry price of its
\* candidate is 0 and compute_position_size raises ZeroDivisionError
ZeroCloseSeries(n, t, vol) ==
    LET s == StoredSeries(n, t, StoredClose, NaN, vol, NaN, StoredAtr)
    IN  [s EXCEPT ![n].close = 0]

\* confluence series of the load limit: a long or a short candidate at 0.60,
\* no candidate, or a candidate whose sizing raises
FailingConfluenceSeries ==
    {StoredSeries(MIN_CANDLES_CONFLUENCE, t, StoredClose, NaN, 11, NaN, StoredAtr) :
        t \in Trends}
    \cup {ZeroCloseSeries(MIN_CANDLES_CONFLUENCE, t, 11) : t \in {-1, 1}}

InitConfluenceFail ==
    /\ FunctionsIdle
    /\ \E t \in {-1, 1}, pr \in WorkingProfiles, vol \in {NaN, 11},
          c \in FailingConfluenceSeries, h \in FailingConfluenceSeries :
          ohlcv = [tf \in {"15m", "1h", "4h"} |->
                      IF tf = "15m"
                      THEN StoredSeries(MIN_CANDLES, t, StoredClose, pr[1], vol,
                                        pr[3], StoredAtr)
                      ELSE IF tf = "1h" THEN c ELSE h]
    /\ signals = <<>> /\ now = 0
    /\ calls = <<Call("BTCUSDT", "15m")>>

SpecConfluenceFail == InitConfluenceFail /\ [][NextAnalyze]_vars

\* what the body of _quick_signal_direction computes on a series
QuickOutcome(frame, htf_trend) ==
    generate_signals(compute_indicators(frame), "", "", htf_trend,
                     find_support_resistance(compute_indicators(frame), 5, 5, 10))

\* the confluence timeframes whose evaluation raises
Failing(call, trend) ==
    {i \in DOMAIN call.confluence_dfs :
        QuickOutcome(call.confluence_dfs[i].frame, trend).exc # ""}

\* the confluence timeframes whose evaluation returns a first candidate of
\* direction dir
Returning(call, trend, dir) ==
    {i \in DOMAIN call.confluence_dfs :
        LET out == QuickOutcome(call.confluence_dfs[i].frame, trend)
        IN  out.exc = "" /\ out.value # <<>> /\ out.value[1].direction = dir}

\* the invocation saved its primary candidate with the boost of k agreements
SavedWithBoost(call, first, k) ==
    /\ call.phase = "done" /\ call.exc = ""
    /\ Len(call.saved) = 1
    /\ call.saved[1].direction = first.direction
    /\ call.saved[1].confidence
          = IF k > 0 THEN Round2(Min(first.confidence + Min(k * 80, 200), 900))
            ELSE first.confidence

\* C25: if computing indicators, levels or the signal for a confluence
\* timeframe raises any exception, _quick_signal_direction returns none: that
\* timeframe counts as not agreeing, the exception does not propagate, and
\* analyze_symbol still produces and saves the primary candidate with the
\* boost computed from the remaining timeframes.
C25_ConfluenceFailure ==
    \A p \in DOMAIN calls :
       /\ \A i \in Failing(calls[p], TrendOf(calls[p])) :
             quick_signal_direction(calls[p].confluence_dfs[i].frame,
                                    TrendOf(calls[p])) = "none"
       /\ calls[p].phase # "raised"
       /\ (Analyzed(calls[p]) /\ OriginalOf(calls[p]) # <<>>) =>
             SavedWithBoost(calls[p], OriginalOf(calls[p])[1],
                 Cardinality(Returning(calls[p], TrendOf(calls[p]),
                                       OriginalOf(calls[p])[1].direction)))

\* a long at 0.55 saved at 0.63: the 1h evaluation raises on a bar that would
\* have given a long, the 4h evaluation returns a long
C25_Witness ==
    \E p \in DOMAIN calls :
       /\ Analyzed(calls[p]) /\ Len(calls[p].saved) = 1
       /\ Len(calls[p].confluence_dfs) = 2
       /\ Failing(calls[p], 0) = {1}
       /\ LastRow(calls[p].confluence_dfs[1].frame).ema_21 > StoredClose
       /\ Returning(calls[p], 0, "long") = {2}
       /\ OriginalOf(calls[p])[1].direction = "long"
       /\ OriginalOf(calls[p])[1].confidence = 550
       /\ calls[p].saved[1].confidence = 630


-----------------------------------------------------------------------------
(* Invocations of analyze_symbol one after another *)

\* at most MaxSeqCalls invocations are started
MaxSeqCalls == 3

\* both timeframes hold a working series whose last bar gives a long
InitSequential ==
    /\ FunctionsIdle
    /\ ohlcv = [tf \in {"1h", "4h"} |->
                   StoredSeries(MIN_CANDLES, 1, StoredClose, NaN, NaN,
                                StoredClose + Sub, StoredAtr)]
    /\ signals = <<>> /\ now = 0 /\ calls = <<>>

\* an invocation has returned or raised
Ended(call) == call.phase \in {"done", "raised"}

\* the caller awaits each invocation before it starts the next
InvokeNext ==
    /\ Len(calls) < MaxSeqCalls
    /\ \A p \in DOMAIN calls : Ended(calls[p])
    /\ \E tf \in {"1h", "4h"} : calls' = Append(calls, Call("BTCUSDT", tf))
    /\ UNCHANGED <<ohlcv, signals, now, pc, op, ret, exc, args, services>>

NextSequential ==
    \/ InvokeNext
    \/ Tick
    \/ \E p \in DOMAIN calls : ReadPhase(p)
    \/ \E p \in DOMAIN calls : WritePhase(p)

SpecSequential == InitSequential /\ [][NextSequential]_vars

\* a signal of the invocation's symbol and timeframe was saved less than
\* SIGNAL_COOLDOWN_HOURS ago
SavedRecently(call) ==
    \E i \in DOMAIN signals :
       /\ signals[i].symbol = call.symbol
       /\ signals[i].timeframe = call.timeframe
       /\ now - signals[i].created_at < 4

\* no signal of the invocation's symbol and timeframe was ever saved
NeverSaved(call) ==
    \A i \in DOMAIN signals :
       ~(signals[i].symbol = call.symbol /\ signals[i].timeframe = call.timeframe)

\* the invocation returned [] with nothing loaded, evaluated or saved
Blocked(call) ==
    /\ call.phase = "done" /\ call.exc = ""
    /\ call.df = <<>> /\ call.htf_df = NoneObj /\ call.confluence_dfs = <<>>
    /\ call.candidates = <<>> /\ call.saved = <<>>

\* the step in which invocation p opens its read session
Starts(p) == calls[p].phase = "start" /\ calls'[p].phase # "start"

\* C26: when analyze_symbol invocations for one symbol/timeframe run strictly
\* one after another, an invocation that starts less than 4 hours after a
\* signal was saved for that pair returns an empty list and saves nothing,
\* without loading candles or evaluating a candidate; an invocation for a
\* different timeframe of the same symbol is not blocked by that signal.
C26_SequentialCooldown ==
    [][\A p \in DOMAIN calls :
          /\ (Starts(p) /\ SavedRecently(calls[p])) =>
                Blocked(calls'[p]) /\ signals' = signals
          /\ (Starts(p) /\ NeverSaved(calls[p])) =>
                calls'[p].phase = "loaded" /\ calls'[p].df # <<>>
          /\ Blocked(calls[p]) => calls'[p] = calls[p]]_vars

\* three hours after the 1h signal: the second 1h invocation was blocked and
\* the 4h invocation saved its own signal
C26_Witness ==
    /\ Len(calls) = 3 /\ Len(signals) = 2
    /\ calls[1].timeframe = "1h" /\ Len(calls[1].saved) = 1
    /\ calls[2].timeframe = "1h" /\ Blocked(calls[2])
    /\ calls[3].timeframe = "4h" /\ Len(calls[3].saved) = 1
    /\ signals[1].timeframe = "1h" /\ signals[2].timeframe = "4h"
    /\ signals[2].created_at - signals[1].created_at = 3


-----------------------------------------------------------------------------
(* Risk of an emitted candidate (SpecGen) *)

\* the level generate_signals hands to compute_sl_tp for a direction
HandedLevel(dir) ==
    IF dir = "long"
    THEN nearest_support(IF levels # NoneObj THEN levels.support ELSE <<>>, Bar.close)
    ELSE nearest_resistance(IF levels # NoneObj THEN levels.resistance ELSE <<>>, Bar.close)

\* 0.25*a < risk < 1.75*a
WithinRiskBand(risk, a) == 4 * risk > a /\ 4 * risk < 7 * a

\* C27: for every candidate emitted by generate_signals with ATR a > 0, the
\* risk |entry - stop_loss| satisfies 0.25*a < risk < 1.75*a (it is exactly
\* 1.5*a when the ATR-based stop is used), so the risk is never zero and
\* position_size_pct is strictly positive and at most 20.
C27_CandidateRisk ==
    (Returned("generate_signals") /\ ret.value # <<>>) =>
       LET c == ret.value[1]
           a == Bar.atr_14
           risk == Abs(c.entry_price - c.stop_loss)
       IN  /\ a > 0
           /\ WithinRiskBand(risk, a)
           /\ (HandedLevel(c.direction) = None) => 10 * risk = 15 * a
           /\ risk # 0
           /\ c.position_size_pct > 0 /\ c.position_size_pct <= 200

\* the band on the stop before round(sl, 8)
C27_UnroundedRisk ==
    (Returned("generate_signals") /\ ret.value # <<>>) =>
       LET c == ret.value[1]
           a == Bar.atr_14
           risk == Abs(Bar.close - ChooseStop(c.direction, Bar.close, a,
                                              HandedLevel(c.direction)))
       IN  /\ WithinRiskBand(risk, a)
           /\ (HandedLevel(c.direction) = None) => 10 * risk = 15 * a
           /\ c.position_size_pct <= 200


-----------------------------------------------------------------------------
(* screener.py: load_daily_ohlcv, run_screener *)

\* the analyzer's variables while the screener or the collector runs
PipelineIdle ==
    /\ pc = "call" /\ op = "" /\ ret = NoneObj /\ exc = ""
    /\ df = <<>> /\ higher_tf_trend = 0 /\ levels = NoneObj /\ htf_df = <<>>
    /\ SlTpIdle /\ SizeIdle /\ LevelsIdle
    /\ signals = <<>> /\ now = 0 /\ calls = <<>>

\* minimum 24h volume in USD to include a symbol
MIN_VOLUME_24H_USD == 1000000

\* a loader that ignores its limit
load_daily_ohlcv_NoLimit(table, timeframe, limit) ==
    IF timeframe \in DOMAIN table THEN table[timeframe] ELSE <<>>

\* the `limit` most recent candles of the timeframe, oldest first
load_daily_ohlcv(table, timeframe, limit) ==
    LET rows == IF timeframe \in DOMAIN table THEN table[timeframe] ELSE <<>>
    IN  SubSeq(rows, Max(1, Len(rows) - limit + 1), Len(rows))

\* sum of the volumes of bars i..Len(frame)
RECURSIVE VolumeFrom(_, _)
VolumeFrom(frame, i) ==
    IF i > Len(frame) THEN 0 ELSE frame[i].volume + VolumeFrom(frame, i + 1)

\* A volume is an integer number of lots, the lot being the amount worth
\* 1 USD at a close of one sub-unit, so that volume times close is in USD.
\* 24h volume in USD: the volumes of the last 24 bars times the last close
Volume24hUsd(frame) ==
    IF Len(frame) >= 24
    THEN VolumeFrom(frame, Len(frame) - 23) * LastRow(frame).close
    ELSE 0

\* the result of compute_score with its volume estimate
ScoreData(frame) ==
    LET scored == compute_score(frame)
    IN  IF scored.skip THEN scored
        ELSE scored @@ [volume_24h_usd |-> Volume24hUsd(frame)]

\* position of result j in the stable sort by score, highest first
ScoreRank(results, j) ==
    Cardinality({k \in DOMAIN results :
                    \/ results[k].score > results[j].score
                    \/ results[k].score = results[j].score /\ k <= j})

SortByScore(results) ==
    [k \in 1..Len(results) |->
        results[CHOOSE j \in DOMAIN results : ScoreRank(results, j) = k]]

\* one pass of the loop over the symbols: the results after the symbol
Screened(results, symbol, frame, min_volume_usd) ==
    IF frame = <<>> \/ Len(frame) < MIN_CANDLES_SCREEN THEN results
    ELSE LET score_data == ScoreData(frame)
         IN  IF score_data.skip THEN results
             ELSE IF score_data.volume_24h_usd < min_volume_usd THEN results
             ELSE Append(results, score_data @@ [symbol |-> symbol])

\* the candles of a symbol
TableOf(symbol) == IF symbol \in DOMAIN ohlcv THEN ohlcv[symbol] ELSE <<>>

\* run_screener reads the active symbols
GetActiveSymbols ==
    /\ screen # NoneObj /\ screen.pc = "start"
    /\ screen' = IF screen.symbols = <<>>
                 THEN [screen EXCEPT !.pc = "done", !.ret = <<>>]
                 ELSE [screen EXCEPT !.pc = "loop"]
    /\ UNCHANGED <<args, engine, backfill, ws, pc, op, ret, exc>>

\* run_screener loads and scores the next symbol
ScreenSymbol ==
    /\ screen # NoneObj /\ screen.pc = "loop" /\ screen.i <= Len(screen.symbols)
    /\ LET symbol == screen.symbols[screen.i]
           frame == load_daily_ohlcv(TableOf(symbol), screen.timeframe, MIN_CANDLES_SCREEN)
       IN  screen' = [screen EXCEPT
                        !.i = @ + 1,
                        !.results = Screened(@, symbol, frame, screen.min_volume_usd)]
    /\ UNCHANGED <<args, engine, backfill, ws, pc, op, ret, exc>>

\* run_screener sorts the results and returns the first top_n
ReturnTop ==
    /\ screen # NoneObj /\ screen.pc = "loop" /\ screen.i > Len(screen.symbols)
    /\ LET ranked == SortByScore(screen.results)
       IN  screen' = [screen EXCEPT
                        !.pc = "done",
                        !.ret = SubSeq(ranked, 1, Min(screen.top_n, Len(ranked)))]
    /\ UNCHANGED <<args, engine, backfill, ws, pc, op, ret, exc>>

-----------------------------------------------------------------------------
(* run_screener: stored candles and runs *)

\* volume of every stored bar, in lots: the 24h volume of a symbol is on
\* either side of the minimum
ScreenVolumes == {13, 14}

\* stored series of a symbol: none, one bar short of the minimum, the
\* minimum, one bar more, and past the EMA200 warm-up
ScreenLengths == {49, MIN_CANDLES_SCREEN, MIN_CANDLES_SCREEN + 1, MIN_CANDLES}

ScreenSeries(n, t, e200, v) ==
    LET stored == StoredSeries(n, t, e200, NaN, NaN, NaN, StoredAtr)
    IN  [i \in 1..n |-> stored[i] @@ [volume |-> v]]

ScreenTables ==
    {<<>>} \cup
    {[tf \in {"1h"} |-> ScreenSeries(n, t, e200, v)] :
        n \in ScreenLengths, t \in Trends,
        e200 \in {StoredClose - Sub, StoredClose + Sub}, v \in ScreenVolumes}

\* the active symbols, ordered by name
ScreenSymbols == {<<>>, <<"ADAUSDT">>, <<"ADAUSDT", "BTCUSDT">>}

InitScreener ==
    /\ PipelineIdle
    /\ ohlcv \in [{"ADAUSDT", "BTCUSDT"} -> ScreenTables]
    /\ \E symbols \in ScreenSymbols, top_n \in {1, 10} :
          screen = [pc |-> "start", timeframe |-> "1h", top_n |-> top_n,
                    min_volume_usd |-> MIN_VOLUME_24H_USD, symbols |-> symbols,
                    i |-> 1, results |-> <<>>, ret |-> NoneObj]
    /\ backfill = NoneObj /\ ws = NoneObj

NextScreener == GetActiveSymbols \/ ScreenSymbol \/ ReturnTop

SpecScreener == InitScreener /\ [][NextScreener]_vars

\* the 50 most recent stored bars of the symbol of a result
RecentFifty(result) ==
    LET rows == TableOf(result.symbol)[screen.timeframe]
    IN  SubSeq(rows, Len(rows) - 49, Len(rows))

ScoredOnFifty(result) ==
    /\ screen.timeframe \in DOMAIN TableOf(result.symbol)
    /\ Len(TableOf(result.symbol)[screen.timeframe]) >= 50
    /\ LET frame == RecentFifty(result)
           last == LastRow(compute_indicators(frame))
       IN  /\ Len(frame) = 50
           /\ result = ScoreData(frame) @@ [symbol |-> result.symbol]
           /\ ~IsDefined(last.ema_200)
           /\ IsDefined(last.ema_21) /\ IsDefined(last.ema_50)
    /\ result.trend_score \in {250, 750}
    /\ result.trend \in {"bullish", "bearish"}

\* C28: every result returned by run_screener is scored on exactly the 50
\* most recent bars of its symbol (the loader's default limit), so EMA200 is
\* undefined and EMA21 and EMA50 are defined at the scored bar: the trend
\* sub-score is 25 or 75 and the trend label is 'bullish' or 'bearish',
\* never 'neutral'.
C28_ScoredOnFifty ==
    (screen # NoneObj /\ screen.pc = "done") =>
        \A k \in DOMAIN screen.ret : ScoredOnFifty(screen.ret[k])

\* two symbols with 210 stored bars each are returned, the bullish one first
C28_Witness ==
    /\ screen # NoneObj /\ screen.pc = "done" /\ Len(screen.ret) = 2
    /\ \A k \in 1..2 : Len(TableOf(screen.ret[k].symbol)["1h"]) = MIN_CANDLES
    /\ screen.ret[1].symbol = "BTCUSDT" /\ screen.ret[1].trend = "bullish"
    /\ screen.ret[1].trend_score = 750
    /\ screen.ret[2].symbol = "ADAUSDT" /\ screen.ret[2].trend = "bearish"
    /\ screen.ret[2].trend_score = 250


-----------------------------------------------------------------------------
(* collector/ohlcv.py: backfill_symbol *)

\* Time is counted in candles of the timeframe: since_ms and now_ms are
\* candle indexes, and a batch of n candles asked from since_ms ends at
\* candle since_ms + n - 1.  A batch is the record of its length n and of
\* the number of its candles that carry an open price.

\* timeframes with a known duration
TIMEFRAME_MS == {"1m", "5m", "15m", "1h", "4h", "1d"}

\* max candles per request
BATCH_SIZE == 200

\* retry settings, the delay in seconds
MAX_RETRIES == 3
RETRY_BASE_DELAY == 1

\* the same delay before every retry
RetryDelay_Flat(attempt) == RETRY_BASE_DELAY

\* sleep after the failed attempt: RETRY_BASE_DELAY * 2 ** (attempt - 1)
RetryDelay(attempt) == RETRY_BASE_DELAY * 2 ^ (attempt - 1)

\* storage.py, save_candles: the rows kept are the candles with an open
\* price; building the first row raises AttributeError (datetime.UTC is
\* looked up on the class datetime, which has no such attribute), so only
\* a batch without rows is saved, as 0 rows
save_candles(candles) ==
    IF candles.n = 0 THEN [raised |-> FALSE, saved |-> 0]
    ELSE IF candles.complete > 0 THEN [raised |-> TRUE, saved |-> 0]
    ELSE [raised |-> FALSE, saved |-> 0]

\* the loop leaves: log and return total_saved
ReturnTotal(run) == [run EXCEPT !.pc = "done", !.ret = run.total_saved]

\* while since_ms < now_ms: the first attempt of the next batch, or the end
NextBatch(run) ==
    IF run.since_ms < run.now_ms
    THEN [run EXCEPT !.pc = "fetch", !.attempt = 1, !.candles = NoneObj,
                     !.fetched = 0, !.failed = 0, !.slept = <<>>]
    ELSE ReturnTotal(run)

\* backfill_symbol up to its first request
StartBackfill ==
    /\ backfill # NoneObj /\ backfill.pc = "start"
    /\ backfill' = IF backfill.timeframe \notin TIMEFRAME_MS
                   THEN [backfill EXCEPT !.pc = "done", !.ret = 0]
                   ELSE NextBatch(backfill)
    /\ UNCHANGED <<args, engine, screen, ws, pc, op, ret, exc>>

\* an attempt succeeds with a batch of n candles
FetchOk(n, complete) ==
    /\ backfill # NoneObj /\ backfill.pc = "fetch"
    /\ LET got == [backfill EXCEPT !.candles = [n |-> n, complete |-> complete],
                                   !.fetched = @ + 1]
       IN  backfill' = IF n = 0 THEN ReturnTotal(got) ELSE [got EXCEPT !.pc = "save"]
    /\ UNCHANGED <<args, engine, screen, ws, pc, op, ret, exc>>

\* an attempt raises: sleep before the next one, or give the batch up
FetchFail ==
    /\ backfill # NoneObj /\ backfill.pc = "fetch"
    /\ LET got == [backfill EXCEPT !.fetched = @ + 1, !.failed = @ + 1]
       IN  backfill' = IF backfill.attempt < MAX_RETRIES
                       THEN [got EXCEPT !.pc = "sleep",
                                        !.slept = Append(@, RetryDelay(backfill.attempt))]
                       ELSE ReturnTotal(got)
    /\ UNCHANGED <<args, engine, screen, ws, pc, op, ret, exc>>

\* the sleep between two attempts is over
Retry ==
    /\ backfill # NoneObj /\ backfill.pc = "sleep"
    /\ backfill' = [backfill EXCEPT !.pc = "fetch", !.attempt = @ + 1]
    /\ UNCHANGED <<args, engine, screen, ws, pc, op, ret, exc>>

\* the batch is saved and the start moves past its last candle
SaveBatch ==
    /\ backfill # NoneObj /\ backfill.pc = "save"
    /\ LET candles == backfill.candles
           outcome == save_candles(candles)
           moved == [backfill EXCEPT
                       !.total_saved = @ + outcome.saved,
                       !.saved = Append(@, outcome.saved),
                       !.since_ms = @ + candles.n]
       IN  backfill' = IF outcome.raised
                       THEN [backfill EXCEPT !.pc = "raised"]
                       ELSE IF candles.n < BATCH_SIZE THEN ReturnTotal(moved)
                       ELSE [moved EXCEPT !.pc = "pause"]
    /\ UNCHANGED <<args, engine, screen, ws, pc, op, ret, exc>>

\* the pause between two batches is over
Resume ==
    /\ backfill # NoneObj /\ backfill.pc = "pause"
    /\ backfill' = NextBatch(backfill)
    /\ UNCHANGED <<args, engine, screen, ws, pc, op, ret, exc>>

-----------------------------------------------------------------------------
(* backfill_symbol: runs *)

\* full batches the exchange still holds when the backfill starts
MaxBatches == 2

\* candles between the start and now
BackfillSpans == {0, 1} \cup {k * BATCH_SIZE + 1 : k \in 1..MaxBatches}

\* lengths of a returned batch
BatchLengths == {0, 1, BATCH_SIZE}

InitBackfill ==
    /\ PipelineIdle /\ ohlcv = <<>>
    /\ \E timeframe \in {"1h", "2h"}, span \in BackfillSpans :
          backfill = [pc |-> "start", timeframe |-> timeframe,
                      since_ms |-> 0, now_ms |-> span, attempt |-> 0,
                      candles |-> NoneObj, total_saved |-> 0, ret |-> None,
                      fetched |-> 0, failed |-> 0, slept |-> <<>>,
                      saved |-> <<>>]
    /\ screen = NoneObj /\ ws = NoneObj

NextBackfill ==
    \/ StartBackfill
    \/ \E n \in BatchLengths : \E complete \in {0, n} : FetchOk(n, complete)
    \/ FetchFail
    \/ Retry
    \/ SaveBatch
    \/ Resume

SpecBackfill == InitBackfill /\ [][NextBackfill]_vars

RECURSIVE SumOf(_)
SumOf(s) == IF s = <<>> THEN 0 ELSE Head(s) + SumOf(Tail(s))

\* the retries of the batch under way
RetriesInOrder ==
    /\ backfill.fetched <= 3
    /\ backfill.slept \in {<<>>, <<1>>, <<1, 2>>}
    /\ backfill.pc = "fetch" =>
          /\ backfill.fetched = backfill.failed
          /\ Len(backfill.slept) = backfill.failed
    /\ backfill.pc = "sleep" =>
          /\ backfill.failed \in {1, 2}
          /\ Len(backfill.slept) = backfill.failed
    /\ backfill.candles # NoneObj =>
          /\ backfill.pc # "fetch" /\ backfill.pc # "sleep"
          /\ backfill.fetched = backfill.failed + 1
          /\ Len(backfill.slept) = backfill.failed

\* the batch given up after the third failure
GivenUp ==
    backfill.failed = 3 =>
       /\ backfill.pc = "done" /\ backfill.candles = NoneObj
       /\ backfill.slept = <<1, 2>>
       /\ backfill.ret = SumOf(backfill.saved)

\* C29: in backfill_symbol each batch is fetched with at most
\* MAX_RETRIES = 3 attempts, waiting 1 s and then 2 s between attempts and
\* not after the last; the first successful attempt ends the retries for
\* that batch; if all 3 attempts fail the backfill stops at once, requests
\* no further batch, and returns the number of candles saved by the earlier
\* batches.
C29_FetchRetries ==
    backfill # NoneObj => RetriesInOrder /\ GivenUp

\* the second batch is given up after an earlier batch was saved
C29_Witness ==
    /\ backfill # NoneObj /\ backfill.pc = "done"
    /\ backfill.failed = 3 /\ backfill.fetched = 3
    /\ backfill.since_ms = BATCH_SIZE /\ Len(backfill.saved) = 1
    /\ backfill.ret = 0

\* a batch fetched at the third attempt
C29_ThirdAttempt ==
    /\ backfill # NoneObj /\ backfill.pc = "save"
    /\ backfill.failed = 2 /\ backfill.fetched = 3
    /\ backfill.slept = <<1, 2>> /\ backfill.candles.n = BATCH_SIZE


-----------------------------------------------------------------------------
(* collector/websocket.py: WebSocketManager *)

\* failed connections in a row, and messages between two heartbeats
MaxWaits == 6
MaxMessages == 2

\* delays in seconds
RECONNECT_DELAY == 5
MAX_RECONNECT_DELAY == 60

\* a backoff without its cap
Backoff_Uncapped(delay) == delay * 2

\* exponential backoff: min(delay * 2, MAX_RECONNECT_DELAY)
Backoff(delay) == Min(delay * 2, MAX_RECONNECT_DELAY)

\* top of the loop of start: connect again, or leave
LoopHead(manager) ==
    IF manager._running /\ ~manager.shutdown
    THEN [manager EXCEPT !.pc = "connecting"]
    ELSE [manager EXCEPT !.pc = "stopped"]

\* _connect_and_listen raised: leave on shutdown, else wait for the
\* shutdown event at most _reconnect_delay seconds
Failed(manager) ==
    IF ~manager._running \/ manager.shutdown
    THEN [manager EXCEPT !.pc = "stopped"]
    ELSE [manager EXCEPT !.pc = "waiting",
                         !.waits = Append(@, manager._reconnect_delay)]

\* start(shutdown_event) up to the first connection attempt
Start ==
    /\ ws # NoneObj /\ ws.pc = "idle"
    /\ ws' = LoopHead([ws EXCEPT !._running = TRUE])
    /\ UNCHANGED <<args, engine, screen, backfill, pc, op, ret, exc>>

\* websockets.connect succeeds: the delay is reset
Connected ==
    /\ ws # NoneObj /\ ws.pc = "connecting"
    /\ ws' = [ws EXCEPT !.pc = "listening",
                        !._reconnect_delay = RECONNECT_DELAY,
                        !.waits = <<>>]
    /\ UNCHANGED <<args, engine, screen, backfill, pc, op, ret, exc>>

\* websockets.connect raises
ConnectFailed ==
    /\ ws # NoneObj /\ ws.pc = "connecting"
    /\ Len(ws.waits) < MaxWaits
    /\ ws' = Failed(ws)
    /\ UNCHANGED <<args, engine, screen, backfill, pc, op, ret, exc>>

\* a message arrives and is handled
HandleMessage ==
    /\ ws # NoneObj /\ ws.pc = "listening" /\ ~ws.shutdown
    /\ ws._msg_count < MaxMessages
    /\ ws' = [ws EXCEPT !._msg_count = @ + 1]
    /\ UNCHANGED <<args, engine, screen, backfill, pc, op, ret, exc>>

\* the established connection breaks with an exception
ConnectionLost ==
    /\ ws # NoneObj /\ ws.pc = "listening"
    /\ ws' = Failed(ws)
    /\ UNCHANGED <<args, engine, screen, backfill, pc, op, ret, exc>>

\* _connect_and_listen returns: the stream ended, or a message arrived
\* after the shutdown event was set
ConnectionClosed ==
    /\ ws # NoneObj /\ ws.pc = "listening"
    /\ ws' = LoopHead(ws)
    /\ UNCHANGED <<args, engine, screen, backfill, pc, op, ret, exc>>

\* the wait times out: the delay is doubled up to the cap
WaitElapsed ==
    /\ ws # NoneObj /\ ws.pc = "waiting" /\ ~ws.shutdown
    /\ ws' = LoopHead([ws EXCEPT !._reconnect_delay = Backoff(@)])
    /\ UNCHANGED <<args, engine, screen, backfill, pc, op, ret, exc>>

\* the shutdown event ends the wait
WaitInterrupted ==
    /\ ws # NoneObj /\ ws.pc = "waiting" /\ ws.shutdown
    /\ ws' = [ws EXCEPT !.pc = "stopped"]
    /\ UNCHANGED <<args, engine, screen, backfill, pc, op, ret, exc>>

\* _heartbeat_loop logs the statistics and clears the message count
Heartbeat ==
    /\ ws # NoneObj /\ ws._running /\ ~ws.shutdown
    /\ ws.pc # "idle" /\ ws.pc # "stopped"
    /\ ws._msg_count > 0
    /\ ws' = [ws EXCEPT !._msg_count = 0]
    /\ UNCHANGED <<args, engine, screen, backfill, pc, op, ret, exc>>

\* stop()
Stop ==
    /\ ws # NoneObj /\ ws._running
    /\ ws' = [ws EXCEPT !._running = FALSE]
    /\ UNCHANGED <<args, engine, screen, backfill, pc, op, ret, exc>>

\* the shutdown event is set
Shutdown ==
    /\ ws # NoneObj /\ ~ws.shutdown
    /\ ws' = [ws EXCEPT !.shutdown = TRUE]
    /\ UNCHANGED <<args, engine, screen, backfill, pc, op, ret, exc>>

-----------------------------------------------------------------------------
(* WebSocketManager: runs *)

\* __init__; the shutdown event may be set before start
InitStream ==
    /\ PipelineIdle /\ ohlcv = <<>>
    /\ \E shutdown \in BOOLEAN :
          ws = [pc |-> "idle", _running |-> FALSE, shutdown |-> shutdown,
                _reconnect_delay |-> RECONNECT_DELAY, _msg_count |-> 0,
                waits |-> <<>>]
    /\ screen = NoneObj /\ backfill = NoneObj

NextStream ==
    \/ Start
    \/ Connected
    \/ ConnectFailed
    \/ HandleMessage
    \/ ConnectionLost
    \/ ConnectionClosed
    \/ WaitElapsed
    \/ WaitInterrupted
    \/ Heartbeat
    \/ Stop
    \/ Shutdown

SpecStream == InitStream /\ [][NextStream]_vars

\* the k-th wait in a row: 5, 10, 20, 40, 60, 60, ...
NthWait(k) == IF k > 4 THEN 60 ELSE 5 * 2 ^ (k - 1)

\* C30: in WebSocketManager.start the reconnect delay is within [5, 60]
\* seconds in every reachable state: it starts at 5, is doubled and capped
\* at 60 after each failed connection whose wait elapsed without shutdown
\* (so successive waits are 5, 10, 20, 40, 60, 60, ...), and is reset to 5
\* whenever a connection is established.
C30_ReconnectDelay ==
    ws # NoneObj =>
       /\ ws._reconnect_delay >= 5 /\ ws._reconnect_delay <= 60
       /\ ws.pc = "idle" => ws._reconnect_delay = 5
       /\ \A k \in DOMAIN ws.waits : ws.waits[k] = NthWait(k)
       /\ ws.pc = "waiting" => ws._reconnect_delay = NthWait(Len(ws.waits))
       /\ ws.pc = "connecting" => ws._reconnect_delay = NthWait(Len(ws.waits) + 1)
       /\ ws.pc = "listening" => ws._reconnect_delay = 5 /\ ws.waits = <<>>

\* the sixth wait in a row, at the cap for the second time
C30_Witness ==
    /\ ws # NoneObj /\ ws.pc = "waiting"
    /\ ws.waits = <<5, 10, 20, 40, 60, 60>>
    /\ ws._reconnect_delay = 60

=============================================================================
